---- MODULE Spec2Model ----
(***************************************************************************)
(* Calibration-then-equilibrium pipelines of the steel and trade models:   *)
(* the GAMSPy scripts (src/gamspy/simple_steel.py, src/gamspy/trade.py,    *)
(* src/python/trade_gamspy.py) and the Pyomo programs                      *)
(* (src/python/simple_steel_pyomo.py, src/python/trade_pyomo.py).          *)
(*                                                                         *)
(* Numbers are exact rationals <<numerator, denominator>>: the scripts'    *)
(* floating point is modelled without rounding.  The LP and MCP solvers    *)
(* are outside the repository; a solve returns a termination status and    *)
(* levels chosen nondeterministically among the outcomes described at the  *)
(* operators LPOutcomes and MCPOutcomes.                                   *)
(***************************************************************************)
EXTENDS Integers, Sequences, FiniteSets, TLC

VARIABLES
    runner,    \* which script runs
    data,      \* the input records (sets, relation, parameter tables)
    par,       \* parameters written by the scripts (chi, benchmark values, tcost)
    lp,        \* what the calibration LP solve left (status, levels, marginals)
    lev,       \* variable levels   (.l / pyo.value)
    lo,        \* variable lower bounds
    up,        \* variable upper bounds
    fixed,     \* Pyomo fixed flag (GAMS has none: .fx sets lo = up = l)
    model,     \* the MCP model: its complementarity pairs and declared variables
    pc,        \* position in the script
    inflight,  \* the scenarios whose solve call has not returned
    stage,     \* per scenario: how far it has got
    start,     \* per scenario: parameters, bounds and levels its solve started from
    status,    \* per scenario: termination status of its solve
    results,   \* the result records appended so far
    log,       \* what the script printed about failures
    err        \* the exception that ended the script, or "none"

vars == <<runner, data, par, lp, lev, lo, up, fixed, model, pc, inflight, stage,
          start, status, results, log, err>>

(***************************************************************************)
(* Exact rational arithmetic.  <<1, 0>> stands for +infinity (np.inf).     *)
(***************************************************************************)
Abs(n) == IF n < 0 THEN -n ELSE n

RECURSIVE GCD(_, _)
GCD(a, b) == IF b = 0 THEN a ELSE GCD(b, a % b)

RNorm(n, d) ==
    LET g == GCD(Abs(n), Abs(d))
        s == IF d < 0 THEN -1 ELSE 1
    IN  IF g = 0 THEN <<0, 1>> ELSE <<(s * n) \div g, (s * d) \div g>>

Q(n) == <<n, 1>>
Zero == <<0, 1>>
One == <<1, 1>>
Inf == <<1, 0>>

\* the common divisor used to keep intermediate products small
Common(m, n) == IF GCD(Abs(m), Abs(n)) = 0 THEN 1 ELSE GCD(Abs(m), Abs(n))

RAdd(a, b) ==
    IF a = <<0, 1>> THEN b ELSE IF b = <<0, 1>> THEN a ELSE
    LET g == Common(a[2], b[2])
    IN  RNorm(a[1] * (b[2] \div g) + b[1] * (a[2] \div g), (a[2] \div g) * b[2])
RNeg(a) == <<-a[1], a[2]>>
RSub(a, b) == RAdd(a, RNeg(b))
RMul(a, b) ==
    IF a = <<1, 1>> THEN b ELSE IF b = <<1, 1>> THEN a ELSE
    IF a[1] = 0 \/ b[1] = 0 THEN <<0, 1>> ELSE
    LET g == Common(a[1], b[2])
        h == Common(b[1], a[2])
    IN  RNorm((a[1] \div g) * (b[1] \div h), (a[2] \div h) * (b[2] \div g))
\* a / b for b # 0; the callers raise the division error for b = 0
RDiv(a, b) == RMul(a, RNorm(b[2], b[1]))
RLeq(a, b) == IF b = Inf THEN TRUE ELSE IF a = Inf THEN FALSE
              ELSE a[1] * b[2] <= b[1] * a[2]
RLt(a, b) == RLeq(a, b) /\ a # b
RMax(a, b) == IF RLeq(a, b) THEN b ELSE a
RMin(a, b) == IF RLeq(a, b) THEN a ELSE b

RECURSIVE RSum(_, _)
\* sum of fn[x] over the finite set S
RSum(S, fn) ==
    IF S = {} THEN Zero
    ELSE LET x == CHOOSE y \in S : TRUE
         IN  RAdd(fn[x], RSum(S \ {x}, fn))

RECURSIVE ISum(_, _)
ISum(S, fn) ==
    IF S = {} THEN 0
    ELSE LET x == CHOOSE y \in S : TRUE
         IN  fn[x] + ISum(S \ {x}, fn)

(***************************************************************************)
(* Runners.                                                                *)
(***************************************************************************)
GamspySteel == "gamspy/simple_steel.py"
PyomoSteel == "python/simple_steel_pyomo.py"
GamspyTrade == "gamspy/trade.py"
GamspyTradeResults == "python/trade_gamspy.py"
PyomoTrade == "python/trade_pyomo.py"

SteelRunners == {GamspySteel, PyomoSteel}
TradeRunners == {GamspyTrade, GamspyTradeResults, PyomoTrade}
GamspyRunners == {GamspySteel, GamspyTrade, GamspyTradeResults}
PyomoRunners == {PyomoSteel, PyomoTrade}
Runners == SteelRunners \cup TradeRunners

KeyError == "KeyError"
ZeroDivisionError == "ZeroDivisionError"
\* the value of a failed d[k], kept apart from every number
KeyErrorVal == <<0, 0>>
\* fixed_carbon_price=None
NoPrice == <<0, -1>>

(***************************************************************************)
(* Steel input data: sets i, f, t, the relation it and the parameter       *)
(* tables.  A table is a function from the keys that have a record to the  *)
(* recorded value; a key without a record is not in its domain.            *)
(***************************************************************************)
MaxCap == 2        \* capacities ylim[i] range over 1..MaxCap
MaxDemand == 3     \* reference demand dbar ranges over 1..MaxDemand

I == {"i1", "i2"}
F == {"coal", "elec"}
T == {"bof", "eaf"}

\* the records of the relation it, in file order
ItOneEach == << <<"i1", "bof">>, <<"i2", "eaf">> >>
ItChoices ==
    { ItOneEach,                                               \* one technology each
      << <<"i1", "bof">>, <<"i2", "bof">> >>,                  \* the same technology
      << <<"i1", "bof">>, <<"i1", "eaf">>, <<"i2", "eaf">> >>, \* i1 has two
      << <<"i1", "bof">> >> }                                  \* i2 has none

AbarFull(a) == (<<"bof", "coal">> :> a) @@ (<<"bof", "elec">> :> 1)
               @@ (<<"eaf", "elec">> :> 2) @@ (<<"eaf", "coal">> :> 0)
\* eaf uses no coal: the record is absent
AbarSparse(a) == (<<"bof", "coal">> :> a) @@ (<<"bof", "elec">> :> 1)
                 @@ (<<"eaf", "elec">> :> 2)
\* a bof route that uses more electricity than the eaf route
AbarPower == (<<"bof", "coal">> :> 1) @@ (<<"bof", "elec">> :> 3)
             @@ (<<"eaf", "elec">> :> 2) @@ (<<"eaf", "coal">> :> 0)
TauFull == [k \in I \X F |-> IF k[1] = "i2" THEN 1 ELSE 0]
TauSparse == [k \in {"i2"} \X F |-> 1]
VbarFull == [f \in F |-> 1]
RhoFull == [f \in F |-> 1]
KappaFull == [f \in F |-> IF f = "coal" THEN 2 ELSE 0]
Drop(tab, k) == [x \in (DOMAIN tab) \ {k} |-> tab[x]]

\* which table, if any, lacks a record the models read
Omissions == {"none", "abar", "tau", "vbar", "rho", "kappa", "ylim"}

\* the shapes of the data: complete tables with each relation and each bof
\* coal use, the one-technology-each relation with one record left out, and
\* the same relation with the electricity-intensive bof route
Shapes ==
    { <<its, 1, "none">> : its \in ItChoices }
    \cup { <<ItOneEach, 2, "none">> }
    \cup { <<ItOneEach, 1, om>> : om \in Omissions }
    \cup { <<ItOneEach, 1, "power">> }

SteelData ==
    { [it |-> sh[1],
       abar |-> IF sh[3] = "abar" THEN AbarSparse(sh[2])
                ELSE IF sh[3] = "power" THEN AbarPower ELSE AbarFull(sh[2]),
       tau |-> IF sh[3] = "tau" THEN TauSparse ELSE TauFull,
       vbar |-> IF sh[3] = "vbar" THEN Drop(VbarFull, "elec") ELSE VbarFull,
       rho |-> IF sh[3] = "rho" THEN Drop(RhoFull, "coal") ELSE RhoFull,
       kappa |-> IF sh[3] = "kappa" THEN Drop(KappaFull, "elec") ELSE KappaFull,
       ylim |-> IF sh[3] = "ylim" THEN Drop([i \in I |-> y[i]], "i2")
                ELSE [i \in I |-> y[i]],
       dbar |-> d,
       epsilon |-> <<-3, 10>>] :
      sh \in Shapes, y \in [I -> 1..MaxCap], d \in 1..MaxDemand }

(***************************************************************************)
(* Parameter reads.                                                        *)
(***************************************************************************)
\* GAMS: a parameter read at a key without a record is 0
GamsRead(tab, k) == IF k \in DOMAIN tab THEN Q(tab[k]) ELSE Zero
\* Python: d.get(k, 0.0)
DictGet(tab, k) == IF k \in DOMAIN tab THEN Q(tab[k]) ELSE Zero
\* Python: d[k]
DictIndex(tab, k) == IF k \in DOMAIN tab THEN Q(tab[k]) ELSE KeyErrorVal

\* how the Pyomo program reads each table
PyomoIndexed == {"vbar", "rho", "kappa", "ylim"}
PyomoRead(name, tab, k) ==
    IF name \in PyomoIndexed THEN DictIndex(tab, k) ELSE DictGet(tab, k)

ParamRead(r, name, tab, k) ==
    IF r \in GamspyRunners THEN GamsRead(tab, k) ELSE PyomoRead(name, tab, k)

ParamKeys(name) ==
    CASE name = "abar" -> T \X F
      [] name = "tau" -> I \X F
      [] name \in {"vbar", "rho", "kappa"} -> F
      [] name = "ylim" -> I

(***************************************************************************)
(* Plant-level coefficient.                                                *)
(***************************************************************************)
ItSet(its) == {its[n] : n \in DOMAIN its}
Functional(its) == \A i \in I : Cardinality({t \in T : <<i, t>> \in ItSet(its)}) = 1

\* the sum over every technology, without the filter it[i, t]
UnfilteredSum(d, i, f) == RSum(T, [t \in T |-> GamsRead(d.abar, <<t, f>>)])

\* GAMSPy: Sum(t.where[it[i, t]], abar[t, f])
FilteredSum(d, i, f) ==
    RSum({t \in T : <<i, t>> \in ItSet(d.it)},
         [t \in T |-> GamsRead(d.abar, <<t, f>>)])

\* a lookup in which the first record of a plant wins
PlantTechFirst(its, i) ==
    LET ns == {n \in DOMAIN its : its[n][1] = i}
    IN  IF ns = {} THEN KeyError
        ELSE its[CHOOSE n \in ns : \A m \in ns : n <= m][2]

\* Pyomo: plant_tech = dict(zip(it.i, it.t)): the last record of a plant wins
PlantTech(its, i) ==
    LET ns == {n \in DOMAIN its : its[n][1] = i}
    IN  IF ns = {} THEN KeyError
        ELSE its[CHOOSE n \in ns : \A m \in ns : m <= n][2]

\* Pyomo: get_abar(plant_tech[i], f)
Lookup(d, i, f) ==
    IF PlantTech(d.it, i) = KeyError THEN KeyErrorVal
    ELSE DictGet(d.abar, <<PlantTech(d.it, i), f>>)

\* the coefficient of factor f at plant i, as the runner r computes it
Coef(r, d, i, f) == IF r \in GamspyRunners THEN FilteredSum(d, i, f) ELSE Lookup(d, i, f)

(***************************************************************************)
(* Calibration LP:  min sum(i, c[i] * Y[i])  s.t.  sum(i, Y[i]) >= dbar,   *)
(* 0 <= Y[i] <= ylim[i].                                                   *)
(***************************************************************************)
\* c[i] = sum(f, coef[i, f] * (vbar[f] + tau[i, f]))
UnitCost(r, d, i) ==
    RSum(F, [f \in F |-> RMul(Coef(r, d, i, f),
                               RAdd(ParamRead(r, "vbar", d.vbar, f),
                                    ParamRead(r, "tau", d.tau, <<i, f>>)))])

Ylim(r, d, i) == ParamRead(r, "ylim", d.ylim, i)

\* the KeyError raised while the Pyomo calibration model is constructed
PyomoCalibKeyError(d) ==
    \/ \E i \in I : PlantTech(d.it, i) = KeyError
    \/ \E f \in F : f \notin DOMAIN d.vbar
    \/ \E i \in I : i \notin DOMAIN d.ylim

LPFeasible(r, d) == RLeq(Q(d.dbar), RSum(I, [i \in I |-> Ylim(r, d, i)]))

\* an optimal vertex with its duals: y the levels, p the price of demand
LPOptimal(r, d, y, p) ==
    /\ \A i \in I : RLeq(Q(y[i]), Ylim(r, d, i))
    /\ ISum(I, y) >= d.dbar
    /\ RLeq(Zero, p)
    /\ (p # Zero => ISum(I, y) = d.dbar)
    /\ \A i \in I :
         LET rc == RSub(UnitCost(r, d, i), p)
             atLo == y[i] = 0
             atUp == Q(y[i]) = Ylim(r, d, i)
         IN  /\ (~atLo /\ ~atUp) => rc = Zero
             /\ (atLo /\ ~atUp) => RLeq(Zero, rc)
             /\ (atUp /\ ~atLo) => RLeq(rc, Zero)

LPResult(st, r, d, y, p) ==
    [status |-> st,
     Y |-> [i \in I |-> Q(y[i])],
     TC |-> RSum(I, [i \in I |-> RMul(UnitCost(r, d, i), Q(y[i]))]),
     demand_m |-> p,
     rc |-> [i \in I |-> RSub(UnitCost(r, d, i), p)]]

\* what an LP solve may return: every optimal vertex of the grid with its
\* duals when the LP is feasible; otherwise status infeasible with levels and
\* marginals that mean nothing
LPOutcomes(r, d) ==
    IF LPFeasible(r, d)
    THEN { LPResult("optimal", r, d, y, p) :
             <<y, p>> \in { yp \in [I -> 0..MaxCap] \X ({Zero} \cup {UnitCost(r, d, i) : i \in I}) :
                              LPOptimal(r, d, yp[1], yp[2]) } }
    ELSE { LPResult("infeasible", r, d, [i \in I |-> 0], p) : p \in {Zero, One} }

(***************************************************************************)
(* Steel MCP: variables, equations, residuals lhs - rhs of the form        *)
(* "lhs >= rhs".                                                           *)
(***************************************************************************)
SteelVarNames == {"Y", "P", "V", "R", "W"}
SteelEqNames == {"zpf_y", "mkt_y", "mkt_f", "capacity", "mkt_co2"}
\* the index set of a variable or an equation ("" for a scalar)
IndexOf(name) ==
    CASE name \in {"Y", "R", "zpf_y", "capacity"} -> I
      [] name \in {"V", "mkt_f"} -> F
      [] OTHER -> {""}
SteelKeys == UNION {{<<n, x>> : x \in IndexOf(n)} : n \in SteelVarNames}

\* the denominators the steel equations divide by: pbar and vbar[f]
SteelDivisionByZero(r, d, p) ==
    \/ p.pbar = Zero
    \/ \E f \in F : ParamRead(r, "vbar", d.vbar, f) = Zero

Emissions(r, d, L) ==
    RSum(I \X F, [k \in I \X F |->
        RMul(RMul(Coef(r, d, k[1], k[2]), ParamRead(r, "kappa", d.kappa, k[2])),
             L[<<"Y", k[1]>>])])

\* residual of equation instance <<e, x>> at the levels L
SteelResidual(r, d, p, L, e, x) ==
    CASE e = "zpf_y" ->
           RSub(RAdd(RAdd(RSum(F, [f \in F |->
                              RMul(Coef(r, d, x, f),
                                   RAdd(L[<<"V", f>>], ParamRead(r, "tau", d.tau, <<x, f>>)))]),
                          L[<<"R", x>>]),
                     RSum(F, [f \in F |->
                              RMul(RMul(L[<<"W", "">>], ParamRead(r, "kappa", d.kappa, f)),
                                   Coef(r, d, x, f))])),
                L[<<"P", "">>])
      [] e = "mkt_y" ->
           RSub(RSum(I, [i \in I |-> L[<<"Y", i>>]]),
                RMul(Q(d.dbar),
                     RAdd(One, RMul(d.epsilon,
                                    RSub(RDiv(L[<<"P", "">>], p.pbar), One)))))
      [] e = "mkt_f" ->
           RSub(RMul(p.hbar[x],
                     RAdd(One, RMul(ParamRead(r, "rho", d.rho, x),
                                    RSub(RDiv(L[<<"V", x>>],
                                              ParamRead(r, "vbar", d.vbar, x)), One)))),
                RSum(I, [i \in I |-> RMul(Coef(r, d, i, x), L[<<"Y", i>>])]))
      [] e = "capacity" -> RSub(Ylim(r, d, x), L[<<"Y", x>>])
      [] e = "mkt_co2" ->
           RSub(RMul(p.chi, RSum(F, [f \in F |-> p.ebar[f]])), Emissions(r, d, L))

\* the GAMSPy matches: {zpf_y: Y, mkt_y: P, mkt_f: V, capacity: R, mkt_co2: W}
SteelMatches == {<<"zpf_y", "Y">>, <<"mkt_y", "P">>, <<"mkt_f", "V">>,
                 <<"capacity", "R">>, <<"mkt_co2", "W">>}

\* Pyomo build_mcp_model: mkt_co2 is declared only without a fixed price and
\* with chi_target > 0
PyomoSteelMatches(chi, price) ==
    {<<"zpf_y", "Y">>, <<"mkt_y", "P">>, <<"mkt_f", "V">>, <<"capacity", "R">>}
    \cup (IF price = NoPrice /\ RLt(Zero, chi) THEN {<<"mkt_co2", "W">>} ELSE {})

\* Pyomo build_mcp_model: W is fixed with a fixed price, or with chi_target == 0
PyomoWFixed(chi, price) == price # NoPrice \/ chi = Zero

(***************************************************************************)
(* Trade model: regions, input data, benchmark parameters, residuals.      *)
(***************************************************************************)
MaxFlow == 1       \* benchmark flows ref_YM[r, rr] range over 0..MaxFlow

Rg == {"A", "B"}
RR == Rg \X Rg

\* the literals of the scripts
CodeQuantities == (<<"A", "A">> :> 800) @@ (<<"A", "B">> :> 200)
                  @@ (<<"B", "A">> :> 400) @@ (<<"B", "B">> :> 1800)
CodeCosts == (<<"A", "A">> :> 100) @@ (<<"A", "B">> :> 60)
             @@ (<<"B", "A">> :> 90) @@ (<<"B", "B">> :> 0)
CodeRefP == ("A" :> 190) @@ ("B" :> 220)

TcostChoices == { [k \in RR |-> 0],
                  [k \in RR |-> IF k = <<"B", "A">> THEN 1 ELSE 0],
                  [k \in RR |-> IF k[1] = k[2] THEN 0 ELSE 2] }
RefPChoices == { ("A" :> 1) @@ ("B" :> 2), ("A" :> 0) @@ ("B" :> 1) }

TradeData ==
    { [ref_YM |-> CodeQuantities, tcost |-> CodeCosts, ref_P |-> CodeRefP,
       epsilon |-> <<-1, 1>>] }
    \cup
    { [ref_YM |-> ym, tcost |-> tc, ref_P |-> rp, epsilon |-> <<-1, 1>>] :
      ym \in [RR -> 0..MaxFlow], tc \in TcostChoices, rp \in RefPChoices }

TradeVarNames == {"YM", "PM", "PA", "YA"}
TradeEqNames == {"zpf_YM", "mkt_PM", "zpf_YA", "mkt_PA"}
TradeIndexOf(name) ==
    IF name \in {"YM", "PM", "zpf_YM", "mkt_PM"} THEN RR ELSE Rg \X {""}
TradeKeys == UNION {{<<n, x[1], x[2]>> : x \in TradeIndexOf(n)} : n \in TradeVarNames}

\* ref_PM[r, rr] = ref_P[r] + tcost[r, rr], from the base costs
RefPM(d) == [k \in RR |-> Q(d.ref_P[k[1]] + d.tcost[k])]
\* ref_YA[r] = Sum(rr, ref_YM[rr, r])
RefYA(d) == [r \in Rg |-> RSum(Rg, [rr \in Rg |-> Q(d.ref_YM[<<rr, r>>])])]
\* ref_CM[r] = Sum(rr, ref_YM[rr, r] * ref_PM[rr, r])
RefCM(d) ==
    [r \in Rg |-> RSum(Rg, [rr \in Rg |-> RMul(Q(d.ref_YM[<<rr, r>>]), RefPM(d)[<<rr, r>>])])]
\* ref_PA[r] = ref_CM[r] / ref_YA[r]
RefPA(d) == [r \in Rg |-> RDiv(RefCM(d)[r], RefYA(d)[r])]
\* value shares taken over the cost of the origin instead of the destination
ShaPMOfOrigin(d) ==
    [k \in RR |-> RDiv(RMul(Q(d.ref_YM[k]), RefPM(d)[k]), RefCM(d)[k[1]])]

\* sha_PM[rr, r] = (ref_YM[rr, r] * ref_PM[rr, r]) / ref_CM[r]
ShaPM(d) ==
    [k \in RR |-> RDiv(RMul(Q(d.ref_YM[k]), RefPM(d)[k]), RefCM(d)[k[2]])]

\* a zero among ref_YA, ref_CM (the parameter assignments), ref_PM and ref_PA
\* (the equations)
TradeDivisionByZero(d) ==
    \/ \E r \in Rg : RefYA(d)[r] = Zero \/ RefCM(d)[r] = Zero
    \/ \E k \in RR : RefPM(d)[k] = Zero

TradeBenchmark(d) ==
    [tcost |-> [k \in RR |-> Q(d.tcost[k])],
     ref_PM |-> RefPM(d), ref_YA |-> RefYA(d), ref_CM |-> RefCM(d),
     ref_PA |-> RefPA(d), sha_PM |-> ShaPM(d),
     filled |-> {"ref_PM", "ref_YA", "ref_CM", "ref_PA", "sha_PM"}]

\* C_PM(r) = Sum(rrr, sha_PM[rrr, r] * (PM[rrr, r] / ref_PM[rrr, r]))
C_PM(p, L, r) ==
    RSum(Rg, [rrr \in Rg |-> RMul(p.sha_PM[<<rrr, r>>],
                                   RDiv(L[<<"PM", rrr, r>>], p.ref_PM[<<rrr, r>>]))])

TradeResidual(d, p, L, e, x) ==
    CASE e = "zpf_YM" ->
           RSub(L[<<"YM", x[1], x[2]>>],
                RMul(Q(d.ref_YM[x]),
                     RAdd(One, RMul(d.epsilon, RSub(C_PM(p, L, x[2]), One)))))
      [] e = "mkt_PM" ->
           RSub(RAdd(Q(d.ref_P[x[1]]), p.tcost[x]), L[<<"PM", x[1], x[2]>>])
      [] e = "zpf_YA" ->
           RSub(L[<<"YA", x[1], "">>],
                RMul(p.ref_YA[x[1]],
                     RAdd(One, RMul(d.epsilon,
                                    RSub(RDiv(L[<<"PA", x[1], "">>], p.ref_PA[x[1]]), One)))))
      [] e = "mkt_PA" ->
           RSub(RMul(p.ref_PA[x[1]], C_PM(p, L, x[1])), L[<<"PA", x[1], "">>])

TradeMatches == {<<"zpf_YM", "YM">>, <<"mkt_PM", "PM">>, <<"zpf_YA", "YA">>,
                 <<"mkt_PA", "PA">>}

\* the levels the trade variables are initialised with
TradeInitLevels(d, p) ==
    [k \in TradeKeys |->
        CASE k[1] = "YM" -> Q(d.ref_YM[<<k[2], k[3]>>])
          [] k[1] = "PM" -> p.ref_PM[<<k[2], k[3]>>]
          [] k[1] = "PA" -> p.ref_PA[k[2]]
          [] k[1] = "YA" -> p.ref_YA[k[2]]]

(***************************************************************************)
(* The scenario batches.  iterlim: the iteration limit given to the solve  *)
(* (-1: none given); collect: whether the script has a collect_results     *)
(* step for the scenario; policy: whether the scenario perturbs the        *)
(* benchmark; chi, price, scale: the arguments of the Pyomo builders.      *)
(***************************************************************************)
Scen(n, it, c, pol, chi, price, scale) ==
    [name |-> n, iterlim |-> it, collect |-> c, policy |-> pol,
     chi |-> chi, price |-> price, scale |-> scale]

Scenarios(r) ==
    CASE r = GamspySteel ->
           << Scen("Replication Check", 0, FALSE, FALSE, Zero, NoPrice, 1),
              Scen("Reference", 0, TRUE, FALSE, Zero, NoPrice, 1),
              Scen("Cap (-20%)", 1000, TRUE, TRUE, <<4, 5>>, NoPrice, 1),
              Scen("Tax ($10/tCO2)", -1, TRUE, TRUE, Zero, Q(10), 1) >>
      [] r = PyomoSteel ->
           << Scen("Reference", -1, TRUE, FALSE, Zero, NoPrice, 1),
              Scen("Cap (-20%)", -1, TRUE, TRUE, <<4, 5>>, NoPrice, 1),
              Scen("Tax ($10/tCO2)", -1, TRUE, TRUE, Zero, Q(10), 1) >>
      [] r = GamspyTrade ->
           << Scen("Benchmark", 0, FALSE, FALSE, Zero, NoPrice, 1),
              Scen("Double_TC_BA", 100, FALSE, TRUE, Zero, NoPrice, 2) >>
      [] r = GamspyTradeResults ->
           << Scen("Benchmark", 0, TRUE, FALSE, Zero, NoPrice, 1),
              Scen("Double_TC_BA", 100, TRUE, TRUE, Zero, NoPrice, 2) >>
      [] r = PyomoTrade ->
           << Scen("Benchmark", -1, TRUE, FALSE, Zero, NoPrice, 1),
              Scen("Double_TC_BA", -1, TRUE, TRUE, Zero, NoPrice, 2) >>

NScen(r) == Len(Scenarios(r))

\* a scenario has run to its end: collected, skipped, or returned where the
\* script has no collect step
Final(r, stg, k) ==
    \/ stg[k] \in {"collected", "skipped"}
    \/ stg[k] = "returned" /\ ~Scenarios(r)[k].collect /\ r \in GamspyRunners

\* the scenario the script is at: the first that has not run to its end
Cur(r, stg) ==
    IF \A k \in 1..NScen(r) : Final(r, stg, k) THEN NScen(r) + 1
    ELSE CHOOSE k \in 1..NScen(r) :
           ~Final(r, stg, k) /\ \A j \in 1..(k - 1) : Final(r, stg, j)

(***************************************************************************)
(* Variable bundles and the MCP solver.                                    *)
(***************************************************************************)
Keys(r) == IF r \in SteelRunners THEN SteelKeys ELSE TradeKeys

\* the keys of variable or equation `name`, in the key form of runner r
KeysOf(r, name) ==
    IF r \in SteelRunners THEN {<<name, x>> : x \in IndexOf(name)}
    ELSE {<<name, x[1], x[2]>> : x \in TradeIndexOf(name)}

Clamp(l, u, v) == RMax(l, RMin(u, v))

\* the upper bound as declared, whether or not the variable is fixed
DeclaredUp(k, L, u, fx) == u[k]
\* a fixed Pyomo variable stays at its value; GAMS fixes through the bounds
EffLo(k, L, l, fx) == IF fx[k] THEN L[k] ELSE l[k]
EffUp(k, L, u, fx) == IF fx[k] THEN L[k] ELSE u[k]

Project(r, L, l, u, fx) ==
    [k \in Keys(r) |-> Clamp(EffLo(k, L, l, fx), EffUp(k, L, u, fx), L[k])]

\* residual of the equation matched with variable key k
ResidualAt(r, d, p, L, e, k) ==
    IF r \in SteelRunners THEN SteelResidual(r, d, p, L, e, k[2])
    ELSE TradeResidual(d, p, L, e, <<k[2], k[3]>>)

\* the complementarity conditions of one matched pair instance
PairHolds(res, v, l, u) ==
    /\ RLeq(l, v) /\ RLeq(v, u)
    /\ (RLt(l, v) /\ RLt(v, u)) => res = Zero
    /\ (v = l /\ RLt(l, u)) => RLeq(Zero, res)
    /\ (v = u /\ RLt(l, u)) => RLeq(res, Zero)

\* L solves the model m: every matched pair instance is complementary
IsSolution(r, d, p, m, L, l, u, fx) ==
    \A pr \in m.pairs : \A k \in KeysOf(r, pr[2]) :
        PairHolds(ResidualAt(r, d, p, L, pr[1], k), L[k],
                  EffLo(k, L, l, fx), EffUp(k, L, u, fx))

\* another point within the bounds, standing for where an iterating solver ends
Moved(r, L, l, u, fx) ==
    [k \in Keys(r) |->
        Clamp(EffLo(k, L, l, fx), EffUp(k, L, u, fx),
              CASE k[1] \in {"Y", "YM", "YA"} -> RSub(L[k], One)
                [] k[1] \in {"P", "W", "PM", "PA"} -> RAdd(L[k], One)
                [] OTHER -> L[k])]

MCPStatuses == {"optimal", "iteration_limit", "infeasible"}

\* what an MCP solve may return.  With iteration limit 0 the solver only
\* evaluates the starting point (as given, or projected onto the bounds) and
\* reports optimal exactly when that point solves the model.  Otherwise it
\* may end with any status, at the starting point or at another point.
MCPOutcomes(r, d, p, m, iterlim, L, l, u, fx) ==
    IF iterlim = 0
    THEN { [status |-> IF IsSolution(r, d, p, m, X, l, u, fx) THEN "optimal"
                       ELSE "iteration_limit",
            lev |-> X] : X \in {L, Project(r, L, l, u, fx)} }
    ELSE { [status |-> "optimal", lev |-> X] :
             X \in {Project(r, L, l, u, fx), Moved(r, L, l, u, fx)} }
         \cup { [status |-> st, lev |-> Moved(r, L, l, u, fx)] :
                 st \in MCPStatuses \ {"optimal"} }

(***************************************************************************)
(* Initial state: the script starts on one of the data sets.               *)
(***************************************************************************)
\* a declared positive variable: level 0, bounds [0, +inf), not fixed
DeclLev(r) == [k \in Keys(r) |-> Zero]
DeclLo(r) == [k \in Keys(r) |-> Zero]
DeclUp(r) == [k \in Keys(r) |-> Inf]
DeclFixed(r) == [k \in Keys(r) |-> FALSE]

SteelPar0 ==
    [chi |-> Zero, pbar |-> Zero,
     rbar |-> [i \in I |-> Zero], ybar |-> [i \in I |-> Zero],
     hbar |-> [f \in F |-> Zero], ebar |-> [f \in F |-> Zero],
     filled |-> {}]

TradePar0(d) ==
    [tcost |-> [k \in RR |-> Q(d.tcost[k])],
     ref_PM |-> [k \in RR |-> Zero], ref_YA |-> [r \in Rg |-> Zero],
     ref_CM |-> [r \in Rg |-> Zero], ref_PA |-> [r \in Rg |-> Zero],
     sha_PM |-> [k \in RR |-> Zero], filled |-> {}]

NoModel == [pairs |-> {}, vars |-> {}, eqs |-> {}]
NoLP == [status |-> "none", Y |-> [i \in I |-> Zero], TC |-> Zero, demand_m |-> Zero,
         rc |-> [i \in I |-> Zero], solves |-> 0]

Snapshot(p, L, l, u, fx, m) ==
    [taken |-> TRUE, par |-> p, lev |-> L, lo |-> l, up |-> u, fixed |-> fx, model |-> m]

Init ==
    /\ runner \in Runners
    /\ data \in IF runner \in SteelRunners THEN SteelData ELSE TradeData
    /\ par = IF runner \in SteelRunners THEN SteelPar0 ELSE TradePar0(data)
    /\ lp = NoLP
    /\ lev = DeclLev(runner)
    /\ lo = DeclLo(runner)
    /\ up = DeclUp(runner)
    /\ fixed = DeclFixed(runner)
    /\ model = NoModel
    /\ pc = IF runner \in SteelRunners THEN "calibrate"
            ELSE IF runner = PyomoTrade THEN "scenarios" ELSE "setup"
    /\ inflight = {}
    /\ stage = [k \in 1..NScen(runner) |-> "pending"]
    /\ start = [k \in 1..NScen(runner) |->
                  [Snapshot(par, lev, lo, up, fixed, model) EXCEPT !.taken = FALSE]]
    /\ status = [k \in 1..NScen(runner) |-> "none"]
    /\ results = << >>
    /\ log = << >>
    /\ err = "none"

Abort(e) ==
    /\ err' = e
    /\ pc' = "aborted"

(***************************************************************************)
(* Steel calibration.                                                      *)
(***************************************************************************)
\* GAMSPy: Y.up[i] = ylim[i]; mincost.solve()
\* Pyomo: build_and_solve_calibration up to the status check
SteelCalibSolve ==
    /\ pc = "calibrate"
    /\ runner \in SteelRunners
    /\ IF runner = PyomoSteel /\ PyomoCalibKeyError(data)
       THEN /\ Abort(KeyError)
            /\ UNCHANGED <<lp, lev, up, log>>
       ELSE \E o \in LPOutcomes(runner, data) :
            /\ lp' = [status |-> o.status, Y |-> o.Y, TC |-> o.TC,
                      demand_m |-> o.demand_m, rc |-> o.rc, solves |-> 1]
            /\ IF runner = GamspySteel
               THEN /\ up' = [k \in Keys(runner) |->
                               IF k[1] = "Y" THEN Ylim(runner, data, k[2]) ELSE up[k]]
                    /\ lev' = [k \in Keys(runner) |->
                                IF k[1] = "Y" THEN o.Y[k[2]] ELSE lev[k]]
                    /\ log' = log
               ELSE /\ UNCHANGED <<up, lev>>
                    /\ log' = IF o.status = "optimal" THEN log
                              ELSE Append(log, [scenario |-> 0, text |-> "Calibration Failed",
                                                reason |-> o.status])
            /\ pc' = "backfill"
            /\ err' = err
    /\ UNCHANGED <<runner, data, par, lo, fixed, model, inflight, stage, start,
                   status, results>>

\* rbar as each runner derives it from the LP marginals
\* GAMSPy: rbar[...] = -1 * Y.m        Pyomo: abs(m.dual[m.Capacity[i]])
Rbar(r, rc) ==
    IF r = GamspySteel THEN [i \in I |-> RNeg(rc[i])]
    ELSE [i \in I |-> IF RLt(rc[i], Zero) THEN RNeg(rc[i]) ELSE Zero]

\* factor demand taken as total output, without the input coefficients
HbarUnweighted(r, d, y) == [f \in F |-> RSum(I, [i \in I |-> y[i]])]

\* hbar[f] = Sum(i, coef[i, f] * ybar[i])
Hbar(r, d, y) == [f \in F |-> RSum(I, [i \in I |-> RMul(Coef(r, d, i, f), y[i])])]
\* benchmark emissions taken at the capacities instead of the LP levels
EbarAtCapacity(r, d, y) ==
    [f \in F |-> RSum(I, [i \in I |->
        RMul(RMul(Coef(r, d, i, f), ParamRead(r, "kappa", d.kappa, f)), Ylim(r, d, i))])]
\* ebar[f] = Sum(i, coef[i, f] * kappa[f] * ybar[i])
Ebar(r, d, y) ==
    [f \in F |-> RSum(I, [i \in I |->
        RMul(RMul(Coef(r, d, i, f), ParamRead(r, "kappa", d.kappa, f)), y[i])])]

Benchmark(r, d, l, chi) ==
    [chi |-> chi, pbar |-> l.demand_m, rbar |-> Rbar(r, l.rc), ybar |-> l.Y,
     hbar |-> Hbar(r, d, l.Y), ebar |-> Ebar(r, d, l.Y),
     filled |-> {"pbar", "rbar", "ybar", "hbar", "ebar"}]

\* GAMSPy: the assignments to pbar, ybar, hbar, rbar, ebar
\* Pyomo: the second solve, the duals and the returned values.  After a failed
\* solve the duals may be missing (KeyError) or meaningless.
SteelBackfill ==
    /\ pc = "backfill"
    /\ IF runner = GamspySteel
       THEN /\ par' = Benchmark(runner, data, lp, par.chi)
            /\ pc' = "setup"
            /\ UNCHANGED <<lp, err>>
       ELSE /\ lp' = [lp EXCEPT !.solves = 2]
            /\ \/ /\ lp.status # "optimal" \/ \E f \in F : f \notin DOMAIN data.kappa
                  /\ Abort(KeyError)
                  /\ par' = par
               \/ /\ \A f \in F : f \in DOMAIN data.kappa
                  /\ par' = Benchmark(runner, data, lp, par.chi)
                  /\ pc' = "scenarios"
                  /\ err' = err
    /\ UNCHANGED <<runner, data, lev, lo, up, fixed, model, inflight, stage, start,
                   status, results, log>>

(***************************************************************************)
(* GAMSPy: the MCP model and the starting values, once per run.            *)
(***************************************************************************)
\* Y.up[i] = np.inf; P.l = pbar; R.l = rbar; Y.l = ybar; V.l = vbar; W.fx = 0
GamspySteelSetup ==
    /\ pc = "setup"
    /\ runner = GamspySteel
    /\ up' = [k \in Keys(runner) |->
               CASE k[1] = "Y" -> Inf
                 [] k[1] = "W" -> Zero
                 [] OTHER -> up[k]]
    /\ lo' = [lo EXCEPT ![<<"W", "">>] = Zero]
    /\ lev' = [k \in Keys(runner) |->
                CASE k[1] = "P" -> par.pbar
                  [] k[1] = "R" -> par.rbar[k[2]]
                  [] k[1] = "Y" -> par.ybar[k[2]]
                  [] k[1] = "V" -> GamsRead(data.vbar, k[2])
                  [] k[1] = "W" -> Zero]
    /\ model' = [pairs |-> SteelMatches, vars |-> SteelVarNames, eqs |-> SteelEqNames]
    /\ pc' = "scenarios"
    /\ UNCHANGED <<runner, data, par, lp, fixed, inflight, stage, start, status,
                   results, log, err>>

\* the benchmark parameter assignments, the model trade and the initial levels
GamspyTradeSetup ==
    /\ pc = "setup"
    /\ runner \in {GamspyTrade, GamspyTradeResults}
    /\ IF \E r \in Rg : RefYA(data)[r] = Zero \/ RefCM(data)[r] = Zero
       THEN /\ Abort("ExecutionError")
            /\ UNCHANGED <<par, lev, model>>
       ELSE /\ par' = TradeBenchmark(data)
            /\ lev' = TradeInitLevels(data, TradeBenchmark(data))
            /\ model' = [pairs |-> TradeMatches, vars |-> TradeVarNames,
                         eqs |-> TradeEqNames]
            /\ pc' = "scenarios"
            /\ err' = err
    /\ UNCHANGED <<runner, data, lp, lo, up, fixed, inflight, stage, start, status,
                   results, log>>

(***************************************************************************)
(* Scenario preparation.                                                   *)
(***************************************************************************)
\* the writes of scenario s applied after a reset of the benchmark levels and
\* of the other transport costs to their declaration values
ParWritesAfterRollback(r, s, p) ==
    IF r = GamspySteel THEN [p EXCEPT !.chi = s.chi, !.ybar = [i \in I |-> Zero]]
    ELSE [p EXCEPT !.tcost = [k \in RR |-> IF k = <<"B", "A">>
                                           THEN RMul(p.tcost[k], Q(s.scale)) ELSE Zero]]

\* a policy step that also recomputes ref_PM[B, A] from the new cost
ParWritesRecalibrated(r, s, p) ==
    IF r = GamspySteel THEN [p EXCEPT !.chi = s.chi]
    ELSE [p EXCEPT !.tcost[<<"B", "A">>] = RMul(@, Q(s.scale)),
                   !.ref_PM[<<"B", "A">>] =
                       RAdd(@, RMul(p.tcost[<<"B", "A">>], Q(s.scale - 1)))]

\* a policy step that writes no parameter
ParWritesNothing(r, s, p) == p

\* the parameters after the GAMSPy script's writes for scenario s
\* steel: chi[...] = 0.8 / chi[...] = 0      trade: tcost["B","A"] = tcost["B","A"]*2
GamspyParWrites(r, s, p) ==
    IF r = GamspySteel THEN [p EXCEPT !.chi = s.chi]
    ELSE [p EXCEPT !.tcost[<<"B", "A">>] = RMul(@, Q(s.scale))]

\* the bounds and level of W after the script's writes for scenario s
\* Cap: W.lo = 0; W.up = np.inf           Tax: W.fx = 10
\* the lower-bound write of W applied to every variable
LoWritesAll(r, s, l) ==
    IF r # GamspySteel THEN l
    ELSE [k \in DOMAIN l |-> IF s.price = NoPrice THEN Zero ELSE s.price]
GamspyLoWrites(r, s, l) ==
    IF r # GamspySteel THEN l
    ELSE [l EXCEPT ![<<"W", "">>] = IF s.price = NoPrice THEN Zero ELSE s.price]
\* a policy step that leaves the upper bound of W as it is
UpWritesNothing(r, s, u) == u
\* a policy step that puts a finite upper bound back on Y
UpWritesRestore(r, s, u) ==
    [k \in DOMAIN u |-> IF k[1] = "Y" THEN Q(MaxCap) ELSE u[k]]
GamspyUpWrites(r, s, u) ==
    IF r # GamspySteel THEN u
    ELSE [u EXCEPT ![<<"W", "">>] = IF s.price = NoPrice THEN Inf ELSE s.price]
\* every level back at its declaration value before a policy solve
LevWritesReset(r, s, L) == [k \in DOMAIN L |-> Zero]
\* W.fx taken to write the bounds only
LevWritesNothing(r, s, L) == L
GamspyLevWrites(r, s, L) ==
    IF r # GamspySteel THEN L
    ELSE [L EXCEPT ![<<"W", "">>] = IF s.price = NoPrice THEN @ ELSE s.price]

\* the script writes parameters or bounds before the solve of a policy scenario
GamspyMutate ==
    /\ pc = "scenarios"
    /\ runner \in GamspyRunners
    /\ Cur(runner, stage) <= NScen(runner)
    /\ LET k == Cur(runner, stage)
           s == Scenarios(runner)[k]
       IN  /\ stage[k] = "pending"
           /\ s.policy
           /\ par' = GamspyParWrites(runner, s, par)
           /\ lo' = GamspyLoWrites(runner, s, lo)
           /\ up' = GamspyUpWrites(runner, s, up)
           /\ lev' = GamspyLevWrites(runner, s, lev)
           /\ stage' = [stage EXCEPT ![k] = "prepared"]
    /\ UNCHANGED <<runner, data, lp, fixed, model, pc, inflight, start, status,
                   results, log, err>>

\* Pyomo steel: the starting levels of a fresh model
PyomoSteelInit(d, p, s) ==
    [k \in SteelKeys |->
        CASE k[1] = "P" -> p.pbar
          [] k[1] = "V" -> DictIndex(d.vbar, k[2])
          [] k[1] = "R" -> p.rbar[k[2]]
          [] k[1] = "W" -> IF s.price = NoPrice THEN Zero ELSE s.price
          [] k[1] = "Y" -> p.ybar[k[2]]]

\* Pyomo trade: tcost of the scenario, the benchmark from the base costs
PyomoTradePar(d, s) ==
    [TradeBenchmark(d) EXCEPT !.tcost[<<"B", "A">>] = RMul(@, Q(s.scale))]

\* the exception raised while a Pyomo model is built, or "none"
PyomoBuildError(r, d, p) ==
    IF r = PyomoSteel
    THEN IF p.pbar = Zero THEN ZeroDivisionError
         ELSE IF \E f \in F : f \notin DOMAIN d.rho THEN KeyError
         ELSE "none"
    ELSE IF TradeDivisionByZero(d) THEN ZeroDivisionError ELSE "none"

\* build_mcp_model(data, ..., chi_target, fixed_carbon_price) /
\* build_trade_model(transport_cost_scale): a fresh model per scenario
PyomoBuild ==
    /\ pc = "scenarios"
    /\ runner \in PyomoRunners
    /\ Cur(runner, stage) <= NScen(runner)
    /\ LET k == Cur(runner, stage)
           s == Scenarios(runner)[k]
       IN  /\ stage[k] = "pending"
           /\ IF PyomoBuildError(runner, data, par) # "none"
              THEN /\ Abort(PyomoBuildError(runner, data, par))
                   /\ UNCHANGED <<par, lev, lo, up, fixed, model, stage>>
              ELSE /\ par' = IF runner = PyomoSteel THEN [par EXCEPT !.chi = s.chi]
                             ELSE PyomoTradePar(data, s)
                   /\ lev' = IF runner = PyomoSteel THEN PyomoSteelInit(data, par, s)
                             ELSE TradeInitLevels(data, TradeBenchmark(data))
                   /\ lo' = DeclLo(runner)
                   /\ up' = DeclUp(runner)
                   /\ fixed' = IF runner = PyomoSteel
                               THEN [DeclFixed(runner) EXCEPT
                                       ![<<"W", "">>] = PyomoWFixed(s.chi, s.price)]
                               ELSE DeclFixed(runner)
                   /\ model' = IF runner = PyomoSteel
                               THEN [pairs |-> PyomoSteelMatches(s.chi, s.price),
                                     vars |-> SteelVarNames,
                                     eqs |-> {pr[1] : pr \in PyomoSteelMatches(s.chi, s.price)}]
                               ELSE [pairs |-> TradeMatches, vars |-> TradeVarNames,
                                     eqs |-> TradeEqNames]
                   /\ stage' = [stage EXCEPT ![k] = "prepared"]
                   /\ UNCHANGED <<pc, err>>
    /\ UNCHANGED <<runner, data, lp, inflight, start, status, results, log>>

(***************************************************************************)
(* Solve, collect, skip.                                                   *)
(***************************************************************************)
\* a zero denominator met when GAMS generates the equations
GamsGenerationError(r, d, p) ==
    IF r = GamspySteel THEN SteelDivisionByZero(r, d, p)
    ELSE \E k \in RR : p.ref_PM[k] = Zero

\* a solve call that hands the model to the solver and returns at once
StageAsync == "returned"

\* the solve call is synchronous: the script waits in it
StageAfterSubmit == "solving"

\* simple.solve(...) / trade.solve(...) / solve_mcp(model) is called
SolveBegin ==
    /\ pc = "scenarios"
    /\ Cur(runner, stage) <= NScen(runner)
    /\ LET k == Cur(runner, stage)
           s == Scenarios(runner)[k]
       IN  /\ \/ stage[k] = "prepared"
              \/ stage[k] = "pending" /\ runner \in GamspyRunners /\ ~s.policy
           /\ \/ /\ runner \in GamspyRunners
                 /\ GamsGenerationError(runner, data, par)
                 /\ Abort("ExecutionError")
                 /\ UNCHANGED <<stage, start, status, inflight, log>>
              \/ /\ runner \in PyomoRunners
                 \* solver.available() is false: solve_mcp returns False
                 /\ stage' = [stage EXCEPT ![k] = "returned"]
                 /\ status' = [status EXCEPT ![k] = "unavailable"]
                 /\ log' = Append(log, [scenario |-> k, text |-> "ERROR: Solver not available",
                                        reason |-> "unavailable"])
                 /\ UNCHANGED <<start, inflight, pc, err>>
              \/ /\ runner \in GamspyRunners => ~GamsGenerationError(runner, data, par)
                 /\ stage' = [stage EXCEPT ![k] = StageAfterSubmit]
                 /\ start' = [start EXCEPT ![k] = Snapshot(par, lev, lo, up, fixed, model)]
                 /\ inflight' = inflight \cup {k}
                 /\ UNCHANGED <<status, log, pc, err>>
    /\ UNCHANGED <<runner, data, par, lp, lev, lo, up, fixed, model, results>>

\* the solve call returns: levels are written, the status is known.
\* simple_steel_pyomo.solve_mcp prints the termination condition of a failure.
SolveReturn ==
    /\ pc = "scenarios"
    /\ \E k \in inflight :
        /\ stage[k] = "solving"
        /\ \E o \in MCPOutcomes(runner, data, par, model, Scenarios(runner)[k].iterlim,
                                  lev, lo, up, fixed) :
            /\ lev' = o.lev
            /\ status' = [status EXCEPT ![k] = o.status]
            /\ log' = IF runner = PyomoSteel /\ o.status # "optimal"
                      THEN Append(log, [scenario |-> k, text |-> "Solve Status",
                                        reason |-> o.status])
                      ELSE log
        /\ stage' = [stage EXCEPT ![k] = "returned"]
        /\ inflight' = inflight \ {k}
    /\ UNCHANGED <<runner, data, par, lp, lo, up, fixed, model, pc, start, results, err>>

\* steel collect_results: one record of aggregates at the current levels
SteelRecord(r, d, L, name) ==
    [Scenario |-> name,
     Production |-> RSum(I, [i \in I |-> L[<<"Y", i>>]]),
     Emissions |-> Emissions(r, d, L),
     SteelPrice |-> L[<<"P", "">>],
     CarbonPrice |-> L[<<"W", "">>]]

\* trade collect_results: one record per variable instance.  trade_pyomo.py
\* goes region by region, trade_gamspy.py variable by variable.
TradeRecordKeys(r) ==
    IF r = PyomoTrade
    THEN << <<"PA", "A", "">>, <<"YA", "A", "">>,
            <<"YM", "A", "A">>, <<"PM", "A", "A">>, <<"YM", "A", "B">>, <<"PM", "A", "B">>,
            <<"PA", "B", "">>, <<"YA", "B", "">>,
            <<"YM", "B", "A">>, <<"PM", "B", "A">>, <<"YM", "B", "B">>, <<"PM", "B", "B">> >>
    ELSE << <<"PA", "A", "">>, <<"PA", "B", "">>, <<"YA", "A", "">>, <<"YA", "B", "">>,
            <<"YM", "A", "A">>, <<"YM", "A", "B">>, <<"YM", "B", "A">>, <<"YM", "B", "B">>,
            <<"PM", "A", "A">>, <<"PM", "A", "B">>, <<"PM", "B", "A">>, <<"PM", "B", "B">> >>

TradeRecords(r, L, name) ==
    LET ks == TradeRecordKeys(r)
    IN  [n \in 1..Len(ks) |->
           [Scenario |-> name, Variable |-> ks[n][1], Region_From |-> ks[n][2],
            Region_To |-> ks[n][3], Value |-> L[ks[n]]]]

\* every returned solve is collected
CollectsAlways(r, st) == TRUE
\* whether the script collects the results of a returned solve:
\* the GAMSPy scripts always, the Pyomo programs when solve_mcp returned True
Collects(r, st) == r \in GamspyRunners \/ st = "optimal"

Collect ==
    /\ pc = "scenarios"
    /\ Cur(runner, stage) <= NScen(runner)
    /\ LET k == Cur(runner, stage)
           s == Scenarios(runner)[k]
       IN  /\ stage[k] = "returned"
           /\ s.collect
           /\ Collects(runner, status[k])
           /\ results' = IF runner \in SteelRunners
                         THEN Append(results, SteelRecord(runner, data, lev, s.name))
                         ELSE results \o TradeRecords(runner, lev, s.name)
           /\ stage' = [stage EXCEPT ![k] = "collected"]
    /\ UNCHANGED <<runner, data, par, lp, lev, lo, up, fixed, model, pc, inflight,
                   start, status, log, err>>

\* Pyomo: solve_mcp returned False: "... failed." is printed, nothing is collected
Skip ==
    /\ pc = "scenarios"
    /\ runner \in PyomoRunners
    /\ Cur(runner, stage) <= NScen(runner)
    /\ LET k == Cur(runner, stage)
       IN  /\ stage[k] = "returned"
           /\ ~Collects(runner, status[k])
           /\ log' = Append(log, [scenario |-> k, text |-> "failed", reason |-> ""])
           /\ stage' = [stage EXCEPT ![k] = "skipped"]
    /\ UNCHANGED <<runner, data, par, lp, lev, lo, up, fixed, model, pc, inflight,
                   start, status, results, err>>

\* the last scenario has run: the results are exported
Finish ==
    /\ pc = "scenarios"
    /\ Cur(runner, stage) = NScen(runner) + 1
    /\ pc' = "done"
    /\ UNCHANGED <<runner, data, par, lp, lev, lo, up, fixed, model, inflight, stage,
                   start, status, results, log, err>>

Next ==
    \/ SteelCalibSolve
    \/ SteelBackfill
    \/ GamspySteelSetup
    \/ GamspyTradeSetup
    \/ GamspyMutate
    \/ PyomoBuild
    \/ SolveBegin
    \/ SolveReturn
    \/ Collect
    \/ Skip
    \/ Finish

Spec == Init /\ [][Next]_vars

(***************************************************************************)
(* Error handling of the runners.                                          *)
(***************************************************************************)
\* the solve of scenario k ended with a status other than optimal
Failed(k) == status[k] \in MCPStatuses \ {"optimal"}

\* the scenarios of the batch: every scenario but the replication check
InBatch(k) == Scenarios(runner)[k].name # "Replication Check"

\* C1 (scenario skip-and-continue): whenever the MCP solve of a scenario of the
\* batch has ended with a non-optimal status and the script has moved past it,
\* (a) the results hold no record of that scenario, (b) a failure reason is
\* recorded for that scenario, and (c) once the run is over every later
\* scenario of the batch has been solved.
C1_SkipAndContinue ==
    \A k \in 1..NScen(runner) :
        (InBatch(k) /\ Failed(k) /\ Final(runner, stage, k)) =>
            /\ \A n \in DOMAIN results : results[n].Scenario # Scenarios(runner)[k].name
            /\ \E n \in DOMAIN log : log[n].scenario = k /\ log[n].reason = status[k]
            /\ pc = "done" => \A j \in (k + 1)..NScen(runner) : status[j] # "none"

\* C2 (calibration failure is fatal): once the calibration LP has ended with a
\* status other than optimal, no benchmark parameter is back-filled, no MCP
\* model is built or solved, no result record exists, and the run ends in an
\* error state that carries the termination reason of the LP.
C2_CalibrationFailureIsFatal ==
    (lp.status \notin {"none", "optimal"}) =>
        /\ par.filled = {}
        /\ model = NoModel
        /\ \A k \in 1..NScen(runner) : stage[k] = "pending"
        /\ results = << >>
        /\ pc \in {"backfill", "aborted"}
        /\ pc = "aborted" => err = lp.status

\* C3 (replication gate): a policy scenario's solve has started only if an
\* earlier zero-iteration solve at the unperturbed benchmark has returned, and
\* a replication solve that did not reproduce the benchmark is reported.
C3_ReplicationGate ==
    \A k \in 1..NScen(runner) :
        (Scenarios(runner)[k].policy /\ start[k].taken) =>
            \E j \in 1..(k - 1) :
                /\ ~Scenarios(runner)[j].policy
                /\ Scenarios(runner)[j].iterlim = 0
                /\ status[j] # "none"
                /\ status[j] # "optimal" => \E n \in DOMAIN log : log[n].scenario = j


(***************************************************************************)
(* Replication of the calibrated benchmark.                                *)
(***************************************************************************)
\* the first solve of a steel run has started from a benchmark that an optimal
\* calibration LP produced; start[1] holds its starting point (chi = 0, W = 0)
SteelReplicationRun ==
    /\ runner \in SteelRunners
    /\ lp.status = "optimal"
    /\ start[1].taken

\* residual of equation instance <<e, x>> at the starting point of the first solve
StartResidual(e, x) == SteelResidual(runner, data, start[1].par, start[1].lev, e, x)

\* the first solve is a zero-iteration solve that has just returned
ZeroIterationReturned ==
    /\ Scenarios(runner)[1].iterlim = 0
    /\ stage[1] = "returned"
    /\ stage[2] = "pending"

WithinTol(x) == RLeq(x, <<1, 1000000>>) /\ RLeq(RNeg(x), <<1, 1000000>>)

TradeReplicationRun ==
    /\ runner \in TradeRunners
    /\ start[1].taken

ParWritten(r, s) ==
    IF r \in GamspyRunners /\ ~s.policy THEN {}
    ELSE IF r \in SteelRunners THEN {"chi"} ELSE {"tcost"}

\* the variables whose bounds and fixed flag the preparation of scenario s
\* writes: W in a GAMSPy steel policy scenario; every variable of the fresh
\* model a Pyomo builder returns
BoundsWritten(r, s) ==
    IF r \in PyomoRunners THEN Keys(r)
    ELSE IF r = GamspySteel /\ s.policy THEN {<<"W", "">>} ELSE {}

Begun(k) == stage[k] # "pending"

DomainOf(r, name) == IF r \in SteelRunners THEN IndexOf(name) ELSE TradeIndexOf(name)

\* C8 (matching totality): in every model that is built, each declared
\* equation is paired with exactly one variable of the same index domain and
\* each declared positive variable is paired with exactly one equation; no
\* solve starts on a model with an unmatched equation or variable.
C8_MatchingTotality ==
    model # NoModel =>
        /\ \A e \in model.eqs :
               /\ Cardinality({pr \in model.pairs : pr[1] = e}) = 1
               /\ \A pr \in model.pairs :
                      pr[1] = e => DomainOf(runner, pr[2]) = DomainOf(runner, e)
        /\ \A v \in model.vars : Cardinality({pr \in model.pairs : pr[2] = v}) = 1

\* the parameters the steel models read
ParamNames == {"abar", "tau", "vbar", "rho", "kappa", "ylim"}

\* C9 (sparse default): for every parameter the models use and every
\* domain-valid key without a record in the input data, the read of the
\* parameter at that key yields 0.0, and the run does not end in a KeyError
\* when every plant has a technology and the calibration is optimal.
C9_SparseDefault ==
    runner \in SteelRunners =>
        /\ \A name \in ParamNames : \A k \in ParamKeys(name) \ DOMAIN data[name] :
               ParamRead(runner, name, data[name], k) = Zero
        /\ (lp.status \in {"none", "optimal"} /\ \A i \in I : PlantTech(data.it, i) # KeyError)
               => err # KeyError

\* C10 (filtered-sum correctness): whenever the relation it maps each plant to
\* exactly one technology, for every plant i and factor f the filtered sum
\* Sum(t.where[it[i, t]], abar[t, f]) of the GAMSPy model equals the lookup
\* get_abar(plant_tech[i], f) of the Pyomo model, which is abar[tech(i), f].
C10_FilteredSum ==
    (runner \in SteelRunners /\ Functional(data.it)) =>
        \A i \in I : \A f \in F :
            /\ FilteredSum(data, i, f) = Lookup(data, i, f)
            /\ \A t \in T : <<i, t>> \in ItSet(data.it) =>
                   FilteredSum(data, i, f) = GamsRead(data.abar, <<t, f>>)

\* a calibration has been solved with coefficients taken from a functional
\* relation in which the plants have different technologies and a record of
\* abar is absent
C10_Witness ==
    /\ runner \in SteelRunners
    /\ Functional(data.it)
    /\ lp.status = "optimal"
    /\ PlantTech(data.it, "i1") # PlantTech(data.it, "i2")
    /\ \E k \in T \X F : k \notin DOMAIN data.abar
    /\ \E f \in F : Coef(runner, data, "i1", f) # Coef(runner, data, "i2", f)


(***************************************************************************)
(* The trade scripts with a solver that returns solutions: the policy      *)
(* solve ends with status optimal at any solution of the complementarity   *)
(* system, the benchmark solve at its starting point when that solves it.  *)
(***************************************************************************)
\* the price variables of the trade model
TradePriceKeys == {k \in TradeKeys : k[1] \in {"PM", "PA"}}

\* the levels fixed by a pattern z of the prices (z[k]: price k is above its
\* lower bound 0, so that its equation holds with equality); a quantity is
\* the right-hand side of its equation, or 0 where that is negative
TradePatternLevels(d, p, z) ==
    LET PMl == [k \in RR |-> IF z[<<"PM", k[1], k[2]>>]
                             THEN RAdd(Q(d.ref_P[k[1]]), p.tcost[k]) ELSE Zero]
        C == [r \in Rg |-> RSum(Rg, [rrr \in Rg |->
                 RMul(p.sha_PM[<<rrr, r>>], RDiv(PMl[<<rrr, r>>], p.ref_PM[<<rrr, r>>]))])]
        PAl == [r \in Rg |-> IF z[<<"PA", r, "">>] THEN RMul(p.ref_PA[r], C[r]) ELSE Zero]
    IN  [k \in TradeKeys |->
            CASE k[1] = "PM" -> PMl[<<k[2], k[3]>>]
              [] k[1] = "PA" -> PAl[k[2]]
              [] k[1] = "YM" ->
                   RMax(Zero, RMul(Q(d.ref_YM[<<k[2], k[3]>>]),
                                   RAdd(One, RMul(d.epsilon, RSub(C[k[3]], One)))))
              [] k[1] = "YA" ->
                   RMax(Zero, RMul(p.ref_YA[k[2]],
                                   RAdd(One, RMul(d.epsilon,
                                        RSub(RDiv(PAl[k[2]], p.ref_PA[k[2]]), One)))))]

\* the solutions of the trade model m under the parameters p
TradeSolutions(r, d, p, m, l, u, fx) ==
    { L \in { TradePatternLevels(d, p, z) : z \in [TradePriceKeys -> BOOLEAN] } :
        IsSolution(r, d, p, m, L, l, u, fx) }

\* trade.solve(...) / solve_mcp(model) returns with a solution
SolveReturnSolution ==
    /\ pc = "scenarios"
    /\ runner \in TradeRunners
    /\ \E k \in inflight :
        /\ stage[k] = "solving"
        /\ \E L \in IF Scenarios(runner)[k].policy
                    THEN TradeSolutions(runner, data, par, model, lo, up, fixed)
                    ELSE {X \in {lev} : IsSolution(runner, data, par, model, X, lo, up, fixed)} :
               lev' = L
        /\ status' = [status EXCEPT ![k] = "optimal"]
        /\ stage' = [stage EXCEPT ![k] = "returned"]
        /\ inflight' = inflight \ {k}
    /\ UNCHANGED <<runner, data, par, lp, lo, up, fixed, model, pc, start, results,
                   log, err>>

TradeSolvedInit == Init /\ runner \in TradeRunners

TradeSolvedNext ==
    \/ GamspyTradeSetup
    \/ GamspyMutate
    \/ PyomoBuild
    \/ SolveBegin
    \/ SolveReturnSolution
    \/ Collect
    \/ Skip
    \/ Finish

TradeSolvedSpec == TradeSolvedInit /\ [][TradeSolvedNext]_vars


\* the policy solve of a trade run has returned with a solution
TradePolicySolved ==
    /\ runner \in TradeRunners
    /\ start[2].taken
    /\ status[2] = "optimal"
    /\ stage[2] = "returned"
    /\ IsSolution(runner, data, par, model, lev, lo, up, fixed)

\* YA[A] follows the demand curve: its relative change is epsilon times the
\* relative change of PA[A]
DemandCurveAtA ==
    /\ lev[<<"YA", "A", "">>] =
           RMul(par.ref_YA["A"],
                RAdd(One, RMul(data.epsilon,
                               RSub(RDiv(lev[<<"PA", "A", "">>], par.ref_PA["A"]), One))))
    /\ RLeq(Zero, lev[<<"YA", "A", "">>])

\* C11 as stated (trade end-to-end): after tcost[B,A] is doubled, any solution
\* of the complementarity system has PM[B,A] above ref_PM[B,A] and YM[B,A]
\* below ref_YM[B,A], and YA[A] follows the demand curve and is non-negative.
C11_AnySolution ==
    TradePolicySolved =>
        /\ RLt(par.ref_PM[<<"B", "A">>], lev[<<"PM", "B", "A">>])
        /\ RLt(lev[<<"YM", "B", "A">>], Q(data.ref_YM[<<"B", "A">>]))
        /\ DemandCurveAtA

\* C11 as the code has it: after tcost[B,A] is doubled, every solution has
\* YA[A] on the demand curve and non-negative; every solution in which both
\* import prices of region A are positive, on data with a positive base cost
\* tcost[B,A] and a positive benchmark flow ref_YM[B,A], has
\* PM[B,A] = ref_P[B] + 2 * tcost[B,A] > ref_PM[B,A] and YM[B,A] < ref_YM[B,A].
C11_InteriorSolution ==
    TradePolicySolved =>
        /\ DemandCurveAtA
        /\ ( /\ RLt(Zero, lev[<<"PM", "A", "A">>])
             /\ RLt(Zero, lev[<<"PM", "B", "A">>])
             /\ data.tcost[<<"B", "A">>] > 0
             /\ data.ref_YM[<<"B", "A">>] > 0 ) =>
               /\ lev[<<"PM", "B", "A">>] =
                      Q(data.ref_P["B"] + 2 * data.tcost[<<"B", "A">>])
               /\ RLt(par.ref_PM[<<"B", "A">>], lev[<<"PM", "B", "A">>])
               /\ RLt(lev[<<"YM", "B", "A">>], Q(data.ref_YM[<<"B", "A">>]))

\* the policy solve returned the solution with positive prices on the data of
\* the scripts: the route B -> A is dearer and carries less
C11_Witness ==
    /\ TradePolicySolved
    /\ data.ref_YM = CodeQuantities
    /\ data.tcost = CodeCosts
    /\ \A k \in TradePriceKeys : RLt(Zero, lev[k])
    /\ lev[<<"PM", "B", "A">>] = Q(400)
    /\ RLt(Zero, lev[<<"YM", "B", "A">>])
    /\ RLt(lev[<<"YM", "B", "A">>], Q(400))


(***************************************************************************)
(* The steel scripts with a solver that returns solutions.  With positive  *)
(* steel and factor prices mkt_y gives P and mkt_f gives V as functions of *)
(* Y, so that a solution is fixed by the state of each plant (idle,        *)
(* interior with R = 0, at capacity) and of the carbon market (W at its    *)
(* fixed value or at 0, or the cap binding): three linear equations in     *)
(* Y[i1], Y[i2] and W.                                                     *)
(***************************************************************************)
\* determinant of a 3 x 3 matrix of rationals
Det3(A) ==
    RSub(RAdd(RAdd(RMul(A[1][1], RMul(A[2][2], A[3][3])),
                   RMul(A[1][2], RMul(A[2][3], A[3][1]))),
              RMul(A[1][3], RMul(A[2][1], A[3][2]))),
         RAdd(RAdd(RMul(A[1][3], RMul(A[2][2], A[3][1])),
                   RMul(A[1][2], RMul(A[2][1], A[3][3]))),
              RMul(A[1][1], RMul(A[2][3], A[3][2]))))

\* A with column c replaced by b
ReplaceCol(A, c, b) == [n \in 1..3 |-> [m \in 1..3 |-> IF m = c THEN b[n] ELSE A[n][m]]]

\* the solutions of A x = b: the one solution, or none when A is singular
Solve3(A, b) ==
    LET D == Det3(A)
    IN  IF D = Zero THEN {}
        ELSE { [c \in 1..3 |-> RDiv(Det3(ReplaceCol(A, c, b)), D)] }

PlantStates == {"idle", "interior", "capacity"}
PlantNo(i) == IF i = "i1" THEN 1 ELSE 2

\* emissions per unit of output of plant i: sum(f, coef[i, f] * kappa[f])
EmissionRate(r, d, i) ==
    RSum(F, [f \in F |-> RMul(Coef(r, d, i, f), ParamRead(r, "kappa", d.kappa, f))])

\* mkt_f solved for V[f]: V[f] = VConst + VSlope * sum(i, coef[i, f] * Y[i])
VSlope(r, d, p, f) ==
    RDiv(ParamRead(r, "vbar", d.vbar, f),
         RMul(ParamRead(r, "rho", d.rho, f), p.hbar[f]))
VConst(r, d, f) ==
    RMul(ParamRead(r, "vbar", d.vbar, f),
         RSub(One, RDiv(One, ParamRead(r, "rho", d.rho, f))))
\* mkt_y solved for P: P = PConst + PSlope * sum(i, Y[i])
PSlope(d, p) == RDiv(p.pbar, RMul(d.epsilon, Q(d.dbar)))
PConst(d, p) == RMul(p.pbar, RSub(One, RDiv(One, d.epsilon)))

\* the prices can be solved for: no zero denominator
SteelPricesSolvable(r, d, p) ==
    /\ ~SteelDivisionByZero(r, d, p)
    /\ \A f \in F : ParamRead(r, "rho", d.rho, f) # Zero /\ p.hbar[f] # Zero
    /\ \A f \in F : ParamRead(r, "rho", d.rho, f) # KeyErrorVal

\* the equation of plant i in state s: coefficients of Y[i1], Y[i2], W and
\* the right-hand side
PlantRow(r, d, p, i, s) ==
    IF s = "interior"
    THEN << [j \in I |-> RSub(RSum(F, [f \in F |->
                                   RMul(Coef(r, d, i, f),
                                        RMul(VSlope(r, d, p, f), Coef(r, d, j, f)))]),
                              PSlope(d, p))],
            EmissionRate(r, d, i),
            RSub(PConst(d, p),
                 RSum(F, [f \in F |-> RMul(Coef(r, d, i, f),
                                           RAdd(VConst(r, d, f),
                                                ParamRead(r, "tau", d.tau, <<i, f>>)))])) >>
    ELSE << [j \in I |-> IF j = i THEN One ELSE Zero], Zero,
            IF s = "idle" THEN Zero ELSE Ylim(r, d, i) >>

\* the equation of the carbon market: W at the value w, or the cap binding
CarbonRow(r, d, p, binding, w) ==
    IF binding
    THEN << [j \in I |-> EmissionRate(r, d, j)], Zero,
            RMul(p.chi, RSum(F, [f \in F |-> p.ebar[f]])) >>
    ELSE << [j \in I |-> Zero], One, w >>

\* the levels that Y[i1], Y[i2], W (the vector x) and the plant states fix
SteelPatternLevels(r, d, p, st, x) ==
    LET Yl == [i \in I |-> x[PlantNo(i)]]
        Vl == [f \in F |-> RAdd(VConst(r, d, f),
                                RMul(VSlope(r, d, p, f),
                                     RSum(I, [i \in I |-> RMul(Coef(r, d, i, f), Yl[i])])))]
        Pl == RAdd(PConst(d, p), RMul(PSlope(d, p), RSum(I, [i \in I |-> Yl[i]])))
        cost == [i \in I |-> RAdd(RSum(F, [f \in F |->
                                      RMul(Coef(r, d, i, f),
                                           RAdd(Vl[f], ParamRead(r, "tau", d.tau, <<i, f>>)))]),
                                  RMul(x[3], EmissionRate(r, d, i)))]
    IN  [k \in SteelKeys |->
            CASE k[1] = "Y" -> Yl[k[2]]
              [] k[1] = "V" -> Vl[k[2]]
              [] k[1] = "P" -> Pl
              [] k[1] = "W" -> x[3]
              [] k[1] = "R" -> IF st[k[2]] = "capacity" THEN RSub(Pl, cost[k[2]]) ELSE Zero]


\* the carbon market states of the model m: W fixed (GAMS bounds, Pyomo
\* flag) leaves its value; mkt_co2 matched with a free W leaves W at its
\* lower bound or the cap binding
CarbonStates(m, L, l, u, fx) ==
    LET w == <<"W", "">>
    IN  IF EffLo(w, L, l, fx) = EffUp(w, L, u, fx)
        THEN {<<FALSE, EffLo(w, L, l, fx)>>}
        ELSE IF <<"mkt_co2", "W">> \in m.pairs
             THEN {<<FALSE, l[w]>>, <<TRUE, Zero>>}
             ELSE {<<FALSE, L[w]>>}

\* the solutions of the steel model m with positive steel and factor prices
SteelSolutions(r, d, p, m, L, l, u, fx) ==
    IF ~SteelPricesSolvable(r, d, p) THEN {}
    ELSE LET row == [i \in I |-> [s \in PlantStates |-> PlantRow(r, d, p, i, s)]]
             Cand == UNION {
                 LET rows == << row["i1"][sc[1]["i1"]], row["i2"][sc[1]["i2"]],
                                CarbonRow(r, d, p, sc[2][1], sc[2][2]) >>
                     A == [n \in 1..3 |-> << rows[n][1]["i1"], rows[n][1]["i2"], rows[n][2] >>]
                     b == [n \in 1..3 |-> rows[n][3]]
                 IN  { SteelPatternLevels(r, d, p, sc[1], x) :
                         x \in { y \in Solve3(A, b) : \A c \in 1..3 : RLeq(Zero, y[c]) } } :
                 sc \in [I -> PlantStates] \X CarbonStates(m, L, l, u, fx) }
         IN  { X \in Cand : IsSolution(r, d, p, m, X, l, u, fx) }

\* simple.solve(...) / solve_mcp(mcp, ...) returns: with a solution when the
\* solver may iterate and one exists, as SolveReturn otherwise
SteelSolveReturnSolution ==
    /\ pc = "scenarios"
    /\ runner \in SteelRunners
    /\ \E k \in inflight :
        /\ stage[k] = "solving"
        /\ LET sols == SteelSolutions(runner, data, par, model, lev, lo, up, fixed)
               outs == IF Scenarios(runner)[k].iterlim = 0
                       THEN MCPOutcomes(runner, data, par, model, 0, lev, lo, up, fixed)
                       ELSE IF sols = {}
                            THEN {[status |-> "infeasible",
                                   lev |-> Project(runner, lev, lo, up, fixed)]}
                            ELSE {[status |-> "optimal", lev |-> X] : X \in sols}
           IN  \E o \in outs :
                 /\ lev' = o.lev
                 /\ status' = [status EXCEPT ![k] = o.status]
                 /\ log' = IF runner = PyomoSteel /\ o.status # "optimal"
                           THEN Append(log, [scenario |-> k, text |-> "Solve Status",
                                             reason |-> o.status])
                           ELSE log
        /\ stage' = [stage EXCEPT ![k] = "returned"]
        /\ inflight' = inflight \ {k}
    /\ UNCHANGED <<runner, data, par, lp, lo, up, fixed, model, pc, start, results, err>>

SteelSolvedInit == Init /\ runner \in SteelRunners

SteelSolvedNext ==
    \/ SteelCalibSolve
    \/ SteelBackfill
    \/ GamspySteelSetup
    \/ GamspyMutate
    \/ PyomoBuild
    \/ SolveBegin
    \/ SteelSolveReturnSolution
    \/ Collect
    \/ Skip
    \/ Finish

SteelSolvedSpec == SteelSolvedInit /\ [][SteelSolvedNext]_vars

\* the scenario named n of a steel run
ScenarioNo(r, n) == CHOOSE k \in 1..NScen(r) : Scenarios(r)[k].name = n

\* the Cap solve of a steel run has returned with a solution, after a
\* benchmark with positive emissions, and nothing has run since
CapSolved ==
    /\ runner \in SteelRunners
    /\ pc = "scenarios"
    /\ LET k == ScenarioNo(runner, "Cap (-20%)")
       IN  /\ start[k].taken
           /\ stage[k] = "returned"
           /\ status[k] = "optimal"
    /\ RLt(Zero, RSum(F, [f \in F |-> par.ebar[f]]))
    /\ IsSolution(runner, data, par, model, lev, lo, up, fixed)

TotalOutput(L) == RSum(I, [i \in I |-> L[<<"Y", i>>]])


C12_OutputRises ==
    /\ CapSolved
    /\ Functional(data.it)
    /\ RLt(RSum(I, [i \in I |-> par.ybar[i]]), TotalOutput(lev))


(***************************************************************************)
(* Result records of the steel scripts.                                    *)
(***************************************************************************)
\* the scenarios of the batch that satisfy Keep(k), in execution order
BatchOrder(Keep(_)) ==
    SelectSeq([k \in 1..NScen(runner) |-> k], LAMBDA k : InBatch(k) /\ Keep(k))

SteelFields == {"Scenario", "Production", "Emissions", "SteelPrice", "CarbonPrice"}

\* the scenario has been run: its solve was attempted and the script is past it
WasRun(k) == status[k] # "none" /\ Final(runner, stage, k)

\* the results hold one record, with the fixed field set, for each scenario
\* of ks, in that order
RecordsOf(ks) ==
    /\ Len(results) = Len(ks)
    /\ \A n \in 1..Len(ks) :
        /\ DOMAIN results[n] = SteelFields
        /\ results[n].Scenario = Scenarios(runner)[ks[n]].name

\* the last record holds the aggregates at the levels of the last scenario
\* run, as long as no later scenario has touched the levels
LastRecordAtOwnLevels ==
    \A k \in 1..NScen(runner) :
        (stage[k] = "collected" /\ \A j \in (k + 1)..NScen(runner) : stage[j] = "pending") =>
            LET rec == results[Len(results)]
            IN  /\ rec.Scenario = Scenarios(runner)[k].name
                /\ rec.Production = TotalOutput(lev)
                /\ rec.Emissions = RSum(I \X F, [x \in I \X F |->
                       RMul(RMul(Coef(runner, data, x[1], x[2]),
                                 ParamRead(runner, "kappa", data.kappa, x[2])),
                            lev[<<"Y", x[1]>>])])
                /\ rec.SteelPrice = lev[<<"P", "">>]
                /\ rec.CarbonPrice = lev[<<"W", "">>]

\* C13 as stated: after a steel batch the results hold exactly one record for
\* each scenario that was run, in execution order, with the fixed field set and
\* the aggregates at the levels left by the scenario's own solve
C13_OneRecordPerRun ==
    (runner \in SteelRunners /\ pc = "done") =>
        /\ RecordsOf(BatchOrder(WasRun))
        /\ LastRecordAtOwnLevels

\* C13: at every point of a steel run the results hold exactly one record,
\* in execution order and with the fixed field set, for each scenario past its
\* collect step, which gamspy/simple_steel.py takes for every scenario run and
\* python/simple_steel_pyomo.py only after a solve that ended optimal; the
\* last record holds the aggregates at the levels left by its scenario's solve
C13_OneRecordPerCollected ==
    runner \in SteelRunners =>
        /\ RecordsOf(BatchOrder(LAMBDA k :
              /\ WasRun(k)
              /\ stage[k] # "returned"
              /\ runner = GamspySteel \/ status[k] = "optimal"))
        /\ LastRecordAtOwnLevels

\* a Pyomo batch that ended with a record for each scenario but one
C13_Witness ==
    /\ runner = PyomoSteel
    /\ pc = "done"
    /\ Len(results) = 2
    /\ \E k \in 1..NScen(runner) : stage[k] = "skipped"
    /\ results[2].Production = TotalOutput(lev)


(***************************************************************************)
(* What the solve entry point hands to its caller.                         *)
(***************************************************************************)
\* Pyomo solve_mcp returns a bool; simple.solve / trade.solve leave the
\* status on the model
Returned(r, st) ==
    IF r \in PyomoRunners THEN (IF st = "optimal" THEN "True" ELSE "False") ELSE st

\* C14 (non-fatal, distinguishable limit status): whenever the MCP solve of a
\* scenario has ended at its iteration limit, the value the solve entry point
\* returned differs from the value it returns for an optimal termination, for
\* any other non-optimal termination and for an unavailable solver, and the
\* run has not ended with an exception
C14_DistinguishableLimit ==
    \A k \in 1..NScen(runner) :
        (status[k] = "iteration_limit" /\ stage[k] # "solving") =>
            /\ \A st \in (MCPStatuses \cup {"unavailable"}) \ {"iteration_limit"} :
                   Returned(runner, st) # Returned(runner, status[k])
            /\ err = "none"


\* C15 (complementary slackness of the calibrated benchmark): at the starting
\* point of the first solve after an optimal calibration LP, every instance
\* of every matched pair whose variable is not fixed has residual >= 0, level
\* >= lower bound and residual * (level - lower bound) = 0; a plant with
\* ybar[i] > 0 has zero-profit residual zero and a plant with spare capacity
\* has rbar[i] = 0
C15_BenchmarkComplementary ==
    SteelReplicationRun =>
        /\ \A pr \in start[1].model.pairs : \A k \in KeysOf(runner, pr[2]) :
             (start[1].lo[k] # start[1].up[k] /\ ~start[1].fixed[k]) =>
                 /\ RLeq(Zero, StartResidual(pr[1], k[2]))
                 /\ RLeq(start[1].lo[k], start[1].lev[k])
                 /\ RMul(StartResidual(pr[1], k[2]),
                         RSub(start[1].lev[k], start[1].lo[k])) = Zero
        /\ \A i \in I :
             /\ RLt(Zero, start[1].par.ybar[i]) => StartResidual("zpf_y", i) = Zero
             /\ RLt(start[1].par.ybar[i], Ylim(runner, data, i)) => start[1].par.rbar[i] = Zero


(***************************************************************************)
(* Sign of the duals of the calibration LP.                                *)
(***************************************************************************)
\* the raw dual of the capacity limit of plant i: Y.m[i], the marginal of the
\* bounded variable, in GAMSPy; m.dual[m.Capacity[i]] in Pyomo
CapacityDual(r, rc) ==
    [i \in I |-> IF r = GamspySteel THEN rc[i] ELSE RMin(rc[i], Zero)]

\* C16 (dual sign convention): once the benchmark is back-filled after an
\* optimal calibration LP, pbar is the negation of the raw dual of the demand
\* constraint, rbar[i] is the negation of the raw dual of the capacity limit of
\* plant i, and pbar and every rbar[i] are non-negative
C16_DualSigns ==
    (runner \in SteelRunners /\ lp.status = "optimal" /\ "rbar" \in par.filled) =>
        /\ par.pbar = RNeg(lp.demand_m)
        /\ \A i \in I : par.rbar[i] = RNeg(CapacityDual(runner, lp.rc)[i])
        /\ RLeq(Zero, par.pbar)
        /\ \A i \in I : RLeq(Zero, par.rbar[i])


(***************************************************************************)
(* Fixing the carbon price.                                                *)
(***************************************************************************)
CarbonKey == <<"W", "">>

\* the scenario runs with W fixed: W.fx = 0 / W.fx = 10 in GAMSPy, m.W.fix in
\* Pyomo; FixedAt is the value
FixedScenario(s) == s.price # NoPrice \/ s.chi = Zero
FixedAt(s) == IF s.price # NoPrice THEN s.price ELSE Zero

\* the script is past the solve of scenario k and at no later scenario yet
JustSolved(k) ==
    /\ stage[k] \in {"returned", "collected", "skipped"}
    /\ status[k] # "unavailable"
    /\ \A j \in (k + 1)..NScen(runner) : stage[j] = "pending"

\* every record of scenario s carries the fixed value as its carbon price
RecordedAtFixed(s) ==
    \A n \in DOMAIN results :
        results[n].Scenario = s.name => results[n].CarbonPrice = FixedAt(s)

\* C17 as stated: in a steel run, whenever W is fixed, W.lo = W.up = W.l = the
\* fixed value at the start of the next solve and after it, and the recorded
\* carbon price is the fixed value; in the Cap scenario W has the bounds
\* [0, inf) and is not fixed
C17_FixSetsBounds ==
    runner \in SteelRunners =>
        \A k \in 1..NScen(runner) :
            start[k].taken =>
                LET s == Scenarios(runner)[k]
                    v == FixedAt(s)
                IN  IF FixedScenario(s)
                    THEN /\ start[k].lo[CarbonKey] = v
                         /\ start[k].up[CarbonKey] = v
                         /\ start[k].lev[CarbonKey] = v
                         /\ JustSolved(k) =>
                              lo[CarbonKey] = v /\ up[CarbonKey] = v /\ lev[CarbonKey] = v
                         /\ RecordedAtFixed(s)
                    ELSE /\ start[k].lo[CarbonKey] = Zero
                         /\ start[k].up[CarbonKey] = Inf
                         /\ ~start[k].fixed[CarbonKey]

\* C17: in a steel run, whenever W is fixed, W.l is the fixed value at the
\* start of the next solve and after it, with W.lo = W.up = the fixed value in
\* gamspy/simple_steel.py and with the fixed flag set and the bounds [0, inf)
\* in python/simple_steel_pyomo.py, and the recorded carbon price is the fixed
\* value; in the Cap scenario W has the bounds [0, inf) and is not fixed
C17_FixHoldsLevel ==
    runner \in SteelRunners =>
        \A k \in 1..NScen(runner) :
            start[k].taken =>
                LET s == Scenarios(runner)[k]
                    v == FixedAt(s)
                    Held(l, u, fx) ==
                        IF runner = GamspySteel
                        THEN l[CarbonKey] = v /\ u[CarbonKey] = v
                        ELSE fx[CarbonKey] /\ l[CarbonKey] = Zero /\ u[CarbonKey] = Inf
                IN  IF FixedScenario(s)
                    THEN /\ Held(start[k].lo, start[k].up, start[k].fixed)
                         /\ start[k].lev[CarbonKey] = v
                         /\ JustSolved(k) => Held(lo, up, fixed) /\ lev[CarbonKey] = v
                         /\ RecordedAtFixed(s)
                    ELSE /\ start[k].lo[CarbonKey] = Zero
                         /\ start[k].up[CarbonKey] = Inf
                         /\ ~start[k].fixed[CarbonKey]

\* the Tax scenario has been solved and recorded after a Cap solve that left
\* another carbon price
C17_Witness ==
    /\ runner \in SteelRunners
    /\ pc = "done"
    /\ \E n \in DOMAIN results :
         /\ results[n].Scenario = "Tax ($10/tCO2)"
         /\ results[n].CarbonPrice = Q(10)
    /\ \E n \in DOMAIN results :
         /\ results[n].Scenario = "Cap (-20%)"
         /\ RLt(Zero, results[n].CarbonPrice)
    /\ lev[CarbonKey] = Q(10)


(***************************************************************************)
(* Starting points and frames of the solves.                               *)
(***************************************************************************)
\* a solve of the run has returned with levels
SomeSolveReturned == \E j \in 1..NScen(runner) : status[j] \in MCPStatuses

PyomoStartLevels ==
    IF runner = PyomoSteel
    THEN PyomoSteelInit(data, par, Scenarios(runner)[Cur(runner, stage)])
    ELSE TradeInitLevels(data, TradeBenchmark(data))

SolveReturns(k) == k \in inflight /\ stage[k] = "solving" /\ stage'[k] = "returned"

\* the variables matched in the model m
Matched(m) == {pr[2] : pr \in m.pairs}

Prepares(k) == k > 1 /\ stage[k] = "pending" /\ stage'[k] = "prepared"

\* the step writes no data, no LP result and no parameter but the policy
\* inputs chi (steel) and tcost[B, A] (trade)
WritesPolicyInputsOnly ==
    /\ data' = data
    /\ lp' = lp
    /\ IF runner \in SteelRunners
       THEN par' = [par EXCEPT !.chi = par'.chi]
       ELSE par' = [par EXCEPT !.tcost[<<"B", "A">>] = par'.tcost[<<"B", "A">>]]

\* the step keeps the model and writes no bound, fixed flag or level but W's
ReusesEntities ==
    /\ model' = model
    /\ \A k \in Keys(runner) \ {CarbonKey} :
         lo'[k] = lo[k] /\ up'[k] = up[k] /\ fixed'[k] = fixed[k] /\ lev'[k] = lev[k]

C21_NoSilentRetry ==
    [][ /\ lp'.solves <= 1
        /\ \A k \in 1..NScen(runner) : start[k].taken => start'[k] = start[k] ]_vars


(***************************************************************************)
(* The configuration under which a steel scenario is solved.               *)
(***************************************************************************)
\* the configuration of the starting point snap: chi, whether W is held and
\* at which value, whether mkt_co2 restricts W, the bounds of Y
ConfigOf(snap) ==
    LET held == EffLo(CarbonKey, snap.lev, snap.lo, snap.fixed)
                  = EffUp(CarbonKey, snap.lev, snap.up, snap.fixed)
    IN  [chi |-> snap.par.chi,
         wfixed |-> held,
         wvalue |-> IF held THEN snap.lev[CarbonKey] ELSE NoPrice,
         cap |-> ~held /\ <<"mkt_co2", "W">> \in snap.model.pairs,
         ylo |-> [i \in I |-> snap.lo[<<"Y", i>>]],
         yup |-> [i \in I |-> snap.up[<<"Y", i>>]]]

\* the configuration the scripts give scenario s
ScenarioConfig(s) ==
    [chi |-> s.chi,
     wfixed |-> FixedScenario(s),
     wvalue |-> IF FixedScenario(s) THEN FixedAt(s) ELSE NoPrice,
     cap |-> ~FixedScenario(s),
     ylo |-> [i \in I |-> Zero],
     yup |-> [i \in I |-> Inf]]

\* the scenarios of the batch of runner r, in order
BatchOf(r) == SelectSeq(Scenarios(r), LAMBDA s : s.name # "Replication Check")

\* C22 (framework equivalence of the scenario sequence): the two steel
\* runners have the same batch of scenario names in the same order with the
\* same configuration for each name; every solve of a batch scenario starts
\* under the configuration of its scenario, whichever the runner; and every
\* record carries a name of that batch
C22_SameConfiguration ==
    runner \in SteelRunners =>
        /\ Len(BatchOf(GamspySteel)) = Len(BatchOf(PyomoSteel))
        /\ \A n \in 1..Len(BatchOf(PyomoSteel)) :
             /\ BatchOf(GamspySteel)[n].name = BatchOf(PyomoSteel)[n].name
             /\ ScenarioConfig(BatchOf(GamspySteel)[n]) = ScenarioConfig(BatchOf(PyomoSteel)[n])
        /\ \A k \in 1..NScen(runner) :
             (InBatch(k) /\ start[k].taken) =>
                 ConfigOf(start[k]) = ScenarioConfig(Scenarios(runner)[k])
        /\ \A n \in DOMAIN results :
             \E m \in 1..Len(BatchOf(PyomoSteel)) :
                 results[n].Scenario = BatchOf(PyomoSteel)[m].name

\* a Pyomo batch in which the three scenarios were solved and recorded
C22_Witness ==
    /\ runner = PyomoSteel
    /\ pc = "done"
    /\ Len(results) = 3
    /\ ConfigOf(start[2]).cap
    /\ ConfigOf(start[3]).wvalue = Q(10)
    /\ ConfigOf(start[1]).wvalue = Zero


(***************************************************************************)
(* build_mcp_model called with any chi_target and fixed_carbon_price.      *)
(***************************************************************************)
ChiTargets == {<<-1, 2>>, Zero, <<4, 5>>, One}
CarbonPrices == {NoPrice, Zero, Q(10)}

\* build_mcp_model(data, pbar, rbar, ybar, hbar, ebar, chi_target = chi,
\* fixed_carbon_price = price) after the calibration
BuildCall ==
    /\ pc = "scenarios"
    /\ runner = PyomoSteel
    /\ \E chi \in ChiTargets, price \in CarbonPrices :
         LET s == Scen("call", -1, FALSE, TRUE, chi, price, 1)
         IN  IF PyomoBuildError(runner, data, par) # "none"
             THEN /\ Abort(PyomoBuildError(runner, data, par))
                  /\ UNCHANGED <<par, lev, lo, up, fixed, model>>
             ELSE /\ par' = [par EXCEPT !.chi = chi]
                  /\ lev' = PyomoSteelInit(data, par, s)
                  /\ lo' = DeclLo(runner)
                  /\ up' = DeclUp(runner)
                  /\ fixed' = [DeclFixed(runner) EXCEPT
                                 ![<<"W", "">>] = PyomoWFixed(chi, price)]
                  /\ model' = [pairs |-> PyomoSteelMatches(chi, price),
                               vars |-> SteelVarNames,
                               eqs |-> {pr[1] : pr \in PyomoSteelMatches(chi, price)}]
                  /\ pc' = "built"
                  /\ err' = err
    /\ UNCHANGED <<runner, data, lp, inflight, stage, start, status, results, log>>

BuildInit == Init /\ runner = PyomoSteel

BuildNext ==
    \/ SteelCalibSolve
    \/ SteelBackfill
    \/ BuildCall

BuildSpec == BuildInit /\ [][BuildNext]_vars

\* C23 (carbon-market squareness): in every model build_mcp_model has built,
\* W is fixed or matched with mkt_co2, and not both
C23_CarbonSquare ==
    (runner = PyomoSteel /\ model # NoModel) =>
        (fixed[CarbonKey] <=> <<"mkt_co2", "W">> \notin model.pairs)


(***************************************************************************)
(* The trade system after the perturbation.                                *)
(***************************************************************************)
\* the parameters of the perturbed system as computed from the data: base
\* benchmark, tcost[B, A] doubled
DoubledSystem(d) ==
    [TradeBenchmark(d) EXCEPT !.tcost[<<"B", "A">>] = RMul(Q(d.tcost[<<"B", "A">>]), Q(2))]

\* C24 (benchmark normalizers survive the trade perturbation): in every trade
\* runner the policy solve starts with tcost[B, A] doubled, so that
\* mkt_PM[B, A] is ref_P[B] + 2 * tcost[B, A] - PM[B, A], with ref_PM,
\* ref_PA, ref_CM, sha_PM and every other parameter at the values computed
\* from the base costs, and with the same matches and bounds: the GAMSPy
\* scripts and the Pyomo program solve the same system
C24_SameSystem ==
    (runner \in TradeRunners /\ start[2].taken) =>
        /\ start[2].par = DoubledSystem(data)
        /\ start[2].par.ref_PM = RefPM(data)
        /\ start[2].par.ref_PA = RefPA(data)
        /\ start[2].par.ref_CM = RefCM(data)
        /\ start[2].par.sha_PM = ShaPM(data)
        /\ TradeResidual(data, start[2].par, start[2].lev, "mkt_PM", <<"B", "A">>)
             = RSub(RAdd(Q(data.ref_P["B"]), Q(2 * data.tcost[<<"B", "A">>])),
                    start[2].lev[<<"PM", "B", "A">>])
        /\ start[2].model.pairs = TradeMatches
        /\ start[2].lo = DeclLo(runner)
        /\ start[2].up = DeclUp(runner)
        /\ start[2].fixed = DeclFixed(runner)

\* the policy solve of a GAMSPy trade script has started on the data of the
\* script, after the in-place doubling of tcost[B, A]
C24_Witness ==
    /\ runner \in {GamspyTrade, GamspyTradeResults}
    /\ start[2].taken
    /\ data.tcost = CodeCosts
    /\ start[2].par.tcost[<<"B", "A">>] = Q(180)
    /\ start[2].par.ref_PM[<<"B", "A">>] = Q(310)
    /\ start[1].par.tcost[<<"B", "A">>] = Q(90)


(***************************************************************************)
(* The order of the capacity bound in the GAMSPy steel script.             *)
(***************************************************************************)
YKeys == {<<"Y", i>> : i \in I}

\* C25 (capacity bound ordering): in the GAMSPy steel script Y.up[i] is
\* ylim[i] for the calibration LP, whose optimal levels respect it; from the
\* setup of the MCP on, Y.up[i] is infinite, at the start of every MCP solve
\* (replication check and scenarios) and ever after; in those solves capacity
\* is matched with R, and a solve that ends optimal leaves Y[i] <= ylim[i]
C25_BoundOrdering ==
    runner = GamspySteel =>
        /\ pc \in {"backfill", "setup"} =>
              \A i \in I :
                  /\ up[<<"Y", i>>] = Ylim(runner, data, i)
                  /\ lp.status = "optimal" => RLeq(lp.Y[i], Ylim(runner, data, i))
        /\ model # NoModel => \A k \in YKeys : up[k] = Inf
        /\ \A k \in 1..NScen(runner) :
              start[k].taken =>
                  /\ \A y \in YKeys : start[k].up[y] = Inf
                  /\ <<"capacity", "R">> \in start[k].model.pairs
                  /\ (JustSolved(k) /\ status[k] = "optimal") =>
                        \A i \in I : RLeq(lev[<<"Y", i>>], Ylim(runner, data, i))

\* the script has solved the LP at a binding capacity and then run every MCP
\* solve with the bound relaxed
C25_Witness ==
    /\ runner = GamspySteel
    /\ pc = "done"
    /\ \A k \in 1..NScen(runner) : start[k].taken
    /\ \E i \in I : lp.Y[i] = Ylim(runner, data, i) /\ RLt(Zero, lp.Y[i])
    /\ \A k \in YKeys : up[k] = Inf /\ start[1].up[k] = Inf


(***************************************************************************)
(* The plant-level coefficient on any relation it: the calibration of both *)
(* steel runners on every relation of up to MaxItLen records and on        *)
(* coefficient tables with entries 0..MaxCoef.                             *)
(***************************************************************************)
MaxItLen == 3      \* records of the relation it
MaxCoef == 2       \* abar[t, f] ranges over 0..MaxCoef

\* the relations: sequences of distinct records (plant, technology)
ItRelations ==
    UNION { { s \in [1..n -> I \X T] : \A a, b \in 1..n : a # b => s[a] # s[b] } :
            n \in 0..MaxItLen }

\* the coefficient tables: eaf uses every factor, bof may use none of them
CoefTables ==
    { ab \in [T \X F -> 0..MaxCoef] : \A f \in F : ab[<<"eaf", f>>] > 0 }

CoefData ==
    { [it |-> its, abar |-> ab, tau |-> TauFull, vbar |-> VbarFull, rho |-> RhoFull,
       kappa |-> KappaFull, ylim |-> [i \in I |-> MaxCap], dbar |-> MaxDemand,
       epsilon |-> <<-3, 10>>] :
      its \in ItRelations, ab \in CoefTables }

CoefInit ==
    /\ runner \in SteelRunners
    /\ data \in CoefData
    /\ par = SteelPar0
    /\ lp = NoLP
    /\ lev = DeclLev(runner)
    /\ lo = DeclLo(runner)
    /\ up = DeclUp(runner)
    /\ fixed = DeclFixed(runner)
    /\ model = NoModel
    /\ pc = "calibrate"
    /\ inflight = {}
    /\ stage = [k \in 1..NScen(runner) |-> "pending"]
    /\ start = [k \in 1..NScen(runner) |->
                  [Snapshot(par, lev, lo, up, fixed, model) EXCEPT !.taken = FALSE]]
    /\ status = [k \in 1..NScen(runner) |-> "none"]
    /\ results = << >>
    /\ log = << >>
    /\ err = "none"

CoefNext == SteelCalibSolve \/ SteelBackfill

CoefSpec == CoefInit /\ [][CoefNext]_vars

\* the technologies of plant i in the relation
Techs(d, i) == {t \in T : \E n \in DOMAIN d.it : d.it[n] = <<i, t>>}

\* t is the technology of the last record of plant i
LastListed(d, i, t) ==
    \E n \in DOMAIN d.it :
        /\ d.it[n] = <<i, t>>
        /\ \A m \in DOMAIN d.it : m > n => d.it[m][1] # i

\* the unit cost of plant i run with the technologies ts
CostOf(d, i, ts) ==
    RSum(ts, [t \in T |->
        RSum(F, [f \in F |-> RMul(Q(d.abar[<<t, f>>]),
                                  RAdd(Q(d.vbar[f]), Q(d.tau[<<i, f>>])))])])

SameCoefficient(d, i) == \A f \in F : FilteredSum(d, i, f) = Lookup(d, i, f)

\* C26 as stated: once the calibration has run, the lookup and the filtered
\* sum give the same coefficient for every plant and factor if and only if
\* each plant has exactly one technology in it
C26_SameIffFunctional ==
    (runner \in SteelRunners /\ pc # "calibrate") =>
        (Functional(data.it) <=> \A i \in I : SameCoefficient(data, i))

\* C26 (plant-technology lookup on non-functional relations): once the
\* calibration has run, the lookup and the filtered sum give the same
\* coefficients for every plant that has exactly one technology; for a plant
\* with several technologies the Pyomo LP prices the plant at the last listed
\* one and the GAMSPy LP at the sum of all of them, and the coefficients are
\* the same exactly when every technology listed before the last has
\* coefficient 0 for every factor; for a plant with no technology the Pyomo
\* run ends with a key error before any solve and the GAMSPy LP prices the
\* plant at 0
C26_LookupVsSum ==
    (runner \in SteelRunners /\ pc # "calibrate") =>
        \A i \in I :
            LET ts == Techs(data, i)
                solved == lp.status = "optimal"
                cost == RAdd(lp.rc[i], lp.demand_m)
            IN  /\ Cardinality(ts) = 1 => SameCoefficient(data, i)
                /\ SameCoefficient(data, i) <=>
                      /\ ts # {}
                      /\ \A t \in ts : \/ LastListed(data, i, t)
                                       \/ \A f \in F : data.abar[<<t, f>>] = 0
                /\ (runner = GamspySteel /\ solved) => cost = CostOf(data, i, ts)
                /\ (runner = PyomoSteel /\ solved) =>
                      /\ ts # {}
                      /\ \A t \in ts : LastListed(data, i, t) => cost = CostOf(data, i, {t})
                /\ ts = {} =>
                      /\ \A f \in F : FilteredSum(data, i, f) = Zero
                      /\ \A f \in F : Lookup(data, i, f) = KeyErrorVal
                      /\ runner = PyomoSteel => err = KeyError /\ lp = NoLP
                      /\ runner = GamspySteel => err # KeyError

\* the GAMSPy LP has been solved on a relation in which i1 has two
\* technologies with non-zero coefficients and i2 has none
C26_Witness ==
    /\ runner = GamspySteel
    /\ lp.status = "optimal"
    /\ Techs(data, "i1") = T
    /\ Techs(data, "i2") = {}
    /\ \A k \in T \X F : data.abar[k] = 1
    /\ RAdd(lp.rc["i1"], lp.demand_m) = Q(4)
    /\ ~SameCoefficient(data, "i1")

====
